---- MODULE Spec2Model ----
(***************************************************************************)
(* Model of the fuel-station feed pipeline: fetchGasStationData and its    *)
(* attempt loop, parseXMLData / parseXMLWithFallback and the station       *)
(* normalisation they perform, and App.loadData with the handlers that     *)
(* interleave with it.                                                     *)
(*                                                                         *)
(* Texts (attribute values, ids, prices as written in the feed) are        *)
(* sequences of one-character strings.  A missing attribute and an empty   *)
(* attribute are both the empty text: the code only ever uses them through *)
(* "a || b" chains and "=== '1'" tests, which do not tell them apart.      *)
(* Numbers are exact decimals [nan, neg, m, d] standing for                *)
(* (neg ? -1 : 1) * m / 10^d, kept normalised (no trailing zero in the     *)
(* fraction, no negative zero).  An optional value is a sequence of        *)
(* length 0 (undefined) or 1.                                              *)
(***************************************************************************)
EXTENDS Integers, Sequences, FiniteSets, TLC

\* ------------------------------------------------------------------------
\* Bounds of the model
\* ------------------------------------------------------------------------
MaxRecords == 3
MaxPriceLen == 3
MaxRefreshes == 2

\* ------------------------------------------------------------------------
\* Texts and numbers
\* ------------------------------------------------------------------------
DigitChars == <<"0", "1", "2", "3", "4", "5", "6", "7", "8", "9">>

IsDigit(c) == \E k \in 1..10 : DigitChars[k] = c

DigitVal(c) == (CHOOSE k \in 1..10 : DigitChars[k] = c) - 1

RECURSIVE NatText(_)
\* String(n) for a natural number n, as the template literal prints it.
NatText(n) == IF n < 10 THEN <<DigitChars[n + 1]>>
              ELSE NatText(n \div 10) \o <<DigitChars[(n % 10) + 1]>>

RECURSIVE Pow10(_)
Pow10(k) == IF k = 0 THEN 1 ELSE 10 * Pow10(k - 1)

NaN == [nan |-> TRUE, neg |-> FALSE, m |-> 0, d |-> 0]

RECURSIVE Normalize(_)
Normalize(n) ==
    IF n.nan THEN NaN
    ELSE IF n.m = 0 THEN [nan |-> FALSE, neg |-> FALSE, m |-> 0, d |-> 0]
    ELSE IF n.d > 0 /\ n.m % 10 = 0
         THEN Normalize([n EXCEPT !.m = @ \div 10, !.d = @ - 1])
    ELSE n

\* x / 10^k
DivPow10(n, k) == IF n.nan THEN NaN ELSE Normalize([n EXCEPT !.d = @ + k])

\* x > 0 and x > 10 as JavaScript evaluates them (false for NaN)
GtZero(n) == ~n.nan /\ ~n.neg /\ n.m > 0

GtTen(n) == ~n.nan /\ ~n.neg /\ n.m > 10 * Pow10(n.d)

\* truthiness of a number: false for 0 and NaN
Truthy(n) == ~n.nan /\ n.m # 0

RECURSIVE DigitRun(_, _)
\* number of consecutive digit characters of s starting at position i
DigitRun(s, i) == IF i > Len(s) \/ ~IsDigit(s[i]) THEN 0
                  ELSE 1 + DigitRun(s, i + 1)

RECURSIVE DigitsValue(_, _, _)
\* value of the n digits of s that start at position i
DigitsValue(s, i, n) == IF n = 0 THEN 0
                        ELSE 10 * DigitsValue(s, i, n - 1) + DigitVal(s[i + n - 1])

\* parseFloat: optional sign, digits, optional "." and digits; the longest
\* such prefix is converted and whatever follows is ignored; NaN when the
\* prefix holds no digit.  (Exponents and leading blanks do not occur in the
\* texts of the model.)
ParseFloat(s) ==
    LET signed == Len(s) >= 1 /\ s[1] \in {"-", "+"}
        neg    == Len(s) >= 1 /\ s[1] = "-"
        i0     == IF signed THEN 2 ELSE 1
        ni     == DigitRun(s, i0)
        dot    == i0 + ni <= Len(s) /\ s[i0 + ni] = "."
        nf     == IF dot THEN DigitRun(s, i0 + ni + 1) ELSE 0
    IN  IF ni + nf = 0 THEN NaN
        ELSE Normalize([nan |-> FALSE, neg |-> neg,
                        m |-> DigitsValue(s, i0, ni) * Pow10(nf)
                              + DigitsValue(s, i0 + ni + 1, nf),
                        d |-> nf])

RECURSIVE ReplaceFirstComma(_)
\* str.replace(',', '.'): a string pattern replaces the first match only
ReplaceFirstComma(s) ==
    IF s = <<>> THEN <<>>
    ELSE IF Head(s) = "," THEN <<".">> \o Tail(s)
    ELSE <<Head(s)>> \o ReplaceFirstComma(Tail(s))

\* ------------------------------------------------------------------------
\* Feed elements.  A <pdv> element is a record
\*   [attrs    : its attributes, a function from attribute names to texts,
\*    ville    : text of its <ville> child (empty when there is none),
\*    adresse  : text of its <adresse> child,
\*    children : its fuel elements in document order, each
\*               [tag, attrs, text],
\*    throws   : "no", or where the extraction of this element raises:
\*               "early" (before its id is recorded) or "late" (after)]
\* ------------------------------------------------------------------------
NoAttrs == [a \in {} |-> <<>>]

\* el.getAttribute(name), with null and "" both the empty text
Attr(attrs, name) == IF name \in DOMAIN attrs THEN attrs[name] ELSE <<>>

RECURSIVE FirstOf(_, _)
\* a || b || c over a list of candidate attribute names
FirstOf(attrs, names) ==
    IF names = <<>> THEN <<>>
    ELSE IF Attr(attrs, Head(names)) # <<>> THEN Attr(attrs, Head(names))
    ELSE FirstOf(attrs, Tail(names))

\* later attributes of the same name replace earlier ones
Override(a, b) == [n \in DOMAIN a \cup DOMAIN b |->
                     IF n \in DOMAIN b THEN b[n] ELSE a[n]]

FUEL_NAMES == [k \in {<<"1">>, <<"2">>, <<"3">>, <<"4">>, <<"5">>, <<"6">>} |->
    CASE k = <<"1">> -> <<"G", "a", "z", "o", "l", "e">>
      [] k = <<"2">> -> <<"S", "P", "9", "5">>
      [] k = <<"3">> -> <<"E", "8", "5">>
      [] k = <<"4">> -> <<"G", "P", "L", "c">>
      [] k = <<"5">> -> <<"E", "1", "0">>
      [] k = <<"6">> -> <<"S", "P", "9", "8">>]

\* FUEL_NAMES[fuelId] || fuelId
FuelName(fuelId) == IF fuelId \in DOMAIN FUEL_NAMES THEN FUEL_NAMES[fuelId] ELSE fuelId

NormalizePriceCents(fuelPrice) ==
    IF GtTen(fuelPrice) THEN DivPow10(fuelPrice, 2) ELSE fuelPrice

\* price: fuelPrice > 10 ? fuelPrice / 1000 : fuelPrice
NormalizePrice(fuelPrice) == IF GtTen(fuelPrice) THEN DivPow10(fuelPrice, 3) ELSE fuelPrice

\* rawLatitude ? rawLatitude / 100000 : undefined  (an optional number)
ConvertCoordinate(raw) == IF Truthy(raw) THEN <<DivPow10(raw, 5)>> ELSE <<>>

\* parseFloat(attr || '0')
RawCoordinate(text) == ParseFloat(IF text # <<>> THEN text ELSE <<"0">>)

\* the fuel pushed for one fuel element, or nothing: if (fuelId && fuelPrice > 0)
FuelOf(fuelId, fuelPrice, fuelUpdate) ==
    IF fuelId # <<>> /\ GtZero(fuelPrice)
    THEN <<[id |-> fuelId, name |-> FuelName(fuelId),
            price |-> NormalizePrice(fuelPrice), lastUpdate |-> fuelUpdate]>>
    ELSE <<>>

RECURSIVE UniqueIdFrom(_, _, _, _)
\* while (usedIds.has(uniqueId)) { uniqueId = `${stationId}-${suffix}`; suffix++ }
UniqueIdFrom(stationId, uniqueId, suffix, usedIds) ==
    IF uniqueId \in usedIds
    THEN UniqueIdFrom(stationId, stationId \o <<"-">> \o NatText(suffix), suffix + 1, usedIds)
    ELSE uniqueId

UniqueIdSingleSuffix(stationId, usedIds) ==
    IF stationId \in usedIds THEN stationId \o <<"-", "1">> ELSE stationId

UniqueId(stationId, usedIds) == UniqueIdFrom(stationId, stationId, 1, usedIds)

\* `station-${index}`
SyntheticId(index) == <<"s", "t", "a", "t", "i", "o", "n", "-">> \o NatText(index)

\* [streetNumber, roadName, roadType].filter(Boolean).join(' ')
JoinParts(parts) ==
    LET kept == SelectSeq(parts, LAMBDA p : p # <<>>)
        J[i \in 0..Len(kept)] ==
            IF i = 0 THEN <<>>
            ELSE IF i = 1 THEN kept[1]
            ELSE J[i - 1] \o <<" ">> \o kept[i]
    IN  J[Len(kept)]

\* if (station.id && (station.city || station.latitude || station.fuels.length > 0 || station.brand))
HasMeaningfulData(station) ==
    /\ station.id # <<>>
    /\ \/ station.city # <<>>
       \/ station.latitude # <<>>
       \/ Len(station.fuels) > 0
       \/ station.brand # <<>>

\* ------------------------------------------------------------------------
\* parseXMLData: extraction of one station element (the body of
\* pdvElements.forEach)
\* ------------------------------------------------------------------------
fuelSelectors == <<"prix", "fuel", "carburant", "price", "essence">>

RECURSIVE SelectFuelElements(_, _)
\* for (const selector of fuelSelectors) { fuelElements = pdv.querySelectorAll(selector);
\*   if (fuelElements.length > 0) break; }
SelectFuelElements(children, selectors) ==
    IF selectors = <<>> THEN <<>>
    ELSE LET found == SelectSeq(children, LAMBDA c : c.tag = Head(selectors))
         IN  IF Len(found) > 0 THEN found
             ELSE SelectFuelElements(children, Tail(selectors))

\* the fuel read from one fuel element by the primary parser
PrimaryFuel(prix) ==
    LET fuelId       == FirstOf(prix.attrs, <<"nom", "id", "type", "name", "code">>)
        attrPrice    == FirstOf(prix.attrs, <<"valeur", "price", "prix", "value">>)
        fuelPriceStr == IF attrPrice # <<>> THEN attrPrice ELSE prix.text
        fuelPrice    == IF fuelPriceStr # <<>>
                        THEN ParseFloat(ReplaceFirstComma(fuelPriceStr))
                        ELSE ParseFloat(<<"0">>)
        fuelUpdate   == FirstOf(prix.attrs, <<"maj", "last_update", "date", "update">>)
    IN  FuelOf(fuelId, fuelPrice, fuelUpdate)

RECURSIVE PrimaryFuels(_)
\* the fuels pushed by fuelElements.forEach, in element order
PrimaryFuels(elements) ==
    IF elements = <<>> THEN <<>>
    ELSE PrimaryFuel(Head(elements)) \o PrimaryFuels(Tail(elements))

IsOne(text) == text = <<"1">>

\* the station object built from one element by parseXMLData
PrimaryStation(pdv, uniqueId) ==
    LET a            == pdv.attrs
        roadType     == FirstOf(a, <<"route", "road">>)
        roadName     == FirstOf(a, <<"nom_rue", "nom_voie">>)
        streetNumber == FirstOf(a, <<"num", "numero">>)
        direct       == IF pdv.adresse # <<>> THEN pdv.adresse
                        ELSE FirstOf(a, <<"adresse", "address", "rue", "voie", "addr", "street">>)
        fullAddress  == IF direct # <<>> THEN direct
                        ELSE JoinParts(<<streetNumber, roadName, roadType>>)
        rawLatitude  == RawCoordinate(FirstOf(a, <<"latitude", "lat", "y">>))
        rawLongitude == RawCoordinate(FirstOf(a, <<"longitude", "lng", "lon", "x">>))
        brand        == FirstOf(a, <<"marque", "brand", "enseigne", "nom">>)
    IN  [id          |-> uniqueId,
         latitude    |-> ConvertCoordinate(rawLatitude),
         longitude   |-> ConvertCoordinate(rawLongitude),
         city        |-> IF pdv.ville # <<>> THEN pdv.ville
                         ELSE FirstOf(a, <<"ville", "city", "commune", "localite">>),
         postalCode  |-> FirstOf(a, <<"cp", "postal_code", "code_postal", "codepostal">>),
         address     |-> fullAddress,
         fuels       |-> PrimaryFuels(SelectFuelElements(pdv.children, fuelSelectors)),
         lastUpdate  |-> FirstOf(a, <<"maj", "last_update", "date_maj", "update">>),
         automate24h |-> \/ IsOne(Attr(a, "automate-24-24"))
                         \/ IsOne(Attr(a, "automate_24h"))
                         \/ IsOne(Attr(a, "automate24h")),
         highway     |-> \/ IsOne(Attr(a, "autoroute"))
                         \/ IsOne(Attr(a, "highway"))
                         \/ IsOne(Attr(a, "autorute")),
         freeAccess  |-> \/ IsOne(Attr(a, "libre-service"))
                         \/ IsOne(Attr(a, "free_access"))
                         \/ IsOne(Attr(a, "libre_service")),
         brand       |-> brand,
         name        |-> brand]

\* stationId of parseXMLData: id || station_id || code || `station-${index}`
PrimaryStationId(pdv, index) ==
    LET rawId == FirstOf(pdv.attrs, <<"id", "station_id", "code">>)
    IN  IF rawId # <<>> THEN rawId ELSE SyntheticId(index)

\* ------------------------------------------------------------------------
\* parseXMLWithFallback: extraction of one <pdv>...</pdv> block (the body of
\* the while loop)
\* ------------------------------------------------------------------------
RECURSIVE BlockAttributes(_, _)
\* attributeRegex runs over stationXml = match[0], the whole block: the
\* name="value" pairs of the opening tag, then those of the nested elements
\* in document order, each assignment replacing an earlier one of that name
BlockAttributes(attributes, children) ==
    IF children = <<>> THEN attributes
    ELSE BlockAttributes(Override(attributes, Head(children).attrs), Tail(children))

\* the fuel read from one nested element by fuelRegex: a <prix ...> tag with a
\* nom="..." and, after it, a valeur="..." attribute.  The optional maj group
\* follows a greedy [^>]* and so never captures: fuelUpdate is undefined.
FallbackFuel(prix) ==
    IF prix.tag = "prix" /\ "nom" \in DOMAIN prix.attrs /\ "valeur" \in DOMAIN prix.attrs
    THEN FuelOf(prix.attrs["nom"],
                ParseFloat(ReplaceFirstComma(prix.attrs["valeur"])),
                <<>>)
    ELSE <<>>

RECURSIVE FallbackFuels(_)
\* the fuels pushed by the while loop over fuelRegex, in document order
FallbackFuels(elements) ==
    IF elements = <<>> THEN <<>>
    ELSE FallbackFuel(Head(elements)) \o FallbackFuels(Tail(elements))

\* the station object built from one block by parseXMLWithFallback
FallbackStation(pdv, uniqueId) ==
    LET attributes   == BlockAttributes(pdv.attrs, pdv.children)
        roadType     == FirstOf(attributes, <<"route", "road">>)
        roadName     == FirstOf(attributes, <<"nom_rue", "nom_voie">>)
        streetNumber == FirstOf(attributes, <<"num", "numero">>)
        direct       == IF pdv.adresse # <<>> THEN pdv.adresse
                        ELSE FirstOf(attributes,
                                 <<"adresse", "address", "rue", "voie", "addr", "street">>)
        fullAddress  == IF direct # <<>> THEN direct
                        ELSE JoinParts(<<streetNumber, roadName, roadType>>)
        rawLatitude  == RawCoordinate(Attr(attributes, "latitude"))
        rawLongitude == RawCoordinate(Attr(attributes, "longitude"))
        brand        == Attr(attributes, "marque")
    IN  [id          |-> uniqueId,
         latitude    |-> ConvertCoordinate(rawLatitude),
         longitude   |-> ConvertCoordinate(rawLongitude),
         city        |-> IF pdv.ville # <<>> THEN pdv.ville
                         ELSE FirstOf(attributes, <<"ville", "city">>),
         postalCode  |-> FirstOf(attributes, <<"cp", "postal_code", "code_postal">>),
         address     |-> fullAddress,
         fuels       |-> FallbackFuels(pdv.children),
         lastUpdate  |-> Attr(attributes, "maj"),
         automate24h |-> IsOne(Attr(attributes, "automate-24-24")),
         highway     |-> IsOne(Attr(attributes, "autoroute")),
         freeAccess  |-> IsOne(Attr(attributes, "libre-service")),
         brand       |-> brand,
         name        |-> brand]

\* stationId of parseXMLWithFallback: attributes['id'] || `station-${index}`
FallbackStationId(pdv, index) ==
    LET rawId == Attr(BlockAttributes(pdv.attrs, pdv.children), "id")
    IN  IF rawId # <<>> THEN rawId ELSE SyntheticId(index)

\* ------------------------------------------------------------------------
\* One iteration of either parser over element pdv, the index-th of the
\* document (from 0), with the ids used and the stations pushed so far: the
\* new used-id set and stations array.  The try/catch around the iteration turns
\* an error into "nothing pushed"; what was recorded before it stays.
\* ------------------------------------------------------------------------
ParseElement(mode, pdv, index, usedIds, stations) ==
    LET stationId == IF mode = "primary" THEN PrimaryStationId(pdv, index)
                     ELSE FallbackStationId(pdv, index)
        uniqueId  == UniqueId(stationId, usedIds)
        station   == IF mode = "primary" THEN PrimaryStation(pdv, uniqueId)
                     ELSE FallbackStation(pdv, uniqueId)
    IN  IF pdv.throws = "early"
        THEN [usedIds |-> usedIds, stations |-> stations]
        ELSE IF pdv.throws = "late"
        THEN [usedIds |-> usedIds \cup {uniqueId}, stations |-> stations]
        ELSE [usedIds  |-> usedIds \cup {uniqueId},
              stations |-> IF HasMeaningfulData(station) THEN Append(stations, station)
                           ELSE stations]

RECURSIVE ParseFrom(_, _, _, _)
\* the used ids and the stations array after the loop of either parser has
\* run over elements i+1 .. Len(elements), starting from acc
ParseFrom(mode, elements, i, acc) ==
    IF i >= Len(elements) THEN acc
    ELSE ParseFrom(mode, elements, i + 1,
                   ParseElement(mode, elements[i + 1], i, acc.usedIds, acc.stations))

\* const usedIds = new Set<string>(); const stations: GasStation[] = []
ParseStart == [usedIds |-> {}, stations |-> <<>>]

\* ------------------------------------------------------------------------
\* Inputs: the station elements a feed document is made of.  Each family
\* varies one aspect of an element and leaves the others empty.
\* ------------------------------------------------------------------------
Pdv(attrs, ville, children, throws) ==
    [attrs |-> attrs, ville |-> ville, adresse |-> <<>>,
     children |-> children, throws |-> throws]

Prix(valeur) ==
    [tag |-> "prix", text |-> <<>>,
     attrs |-> [nom |-> <<"G">>, id |-> <<"1">>, maj |-> <<"d">>, valeur |-> valeur]]

SomeCity == <<"P">>

\* ids: missing, plain, already looking like a suffixed id, under an
\* alternate attribute name; and elements whose extraction raises
IdElements ==
    {Pdv([id |-> i], SomeCity, <<>>, "no") : i \in {<<>>, <<"a">>, <<"a", "-", "1">>}}
    \cup {Pdv([code |-> <<"a">>], SomeCity, <<>>, "no")}
    \cup {Pdv([id |-> <<"a">>], SomeCity, <<>>, t) : t \in {"early", "late"}}

\* coordinates: zero, missing, non-zero, on each axis, and nothing else
CoordElements ==
    {Pdv([latitude |-> la, longitude |-> lo], <<>>, <<>>, "no") :
        la \in {<<"0">>, <<"2", "5", "0", "0", "0", "0">>},
        lo \in {<<>>, <<"-", "5", "2", "3", "0", "0">>}}

\* a brand and nothing else; one fuel element and nothing else
InfoElements ==
    {Pdv([marque |-> <<"T">>], <<>>, <<>>, "no")}
    \cup {Pdv(NoAttrs, <<>>, <<Prix(v)>>, "no") :
            v \in {<<"1", ",", "5">>, <<"1", "5", "0", "0">>, <<"0">>, <<"x">>}}
    \cup {Pdv(NoAttrs, <<>>,
              <<[tag |-> "fuel", text |-> <<"2">>, attrs |-> [type |-> <<"E">>]]>>, "no")}

Elements == IdElements \cup CoordElements \cup InfoElements

\* every text of at most MaxPriceLen characters over this alphabet
PriceChars == {"0", "1", "5", ",", ".", "-", "x"}

PriceTexts == UNION {[1..n -> PriceChars] : n \in 0..MaxPriceLen}

\* ------------------------------------------------------------------------
\* State
\* ------------------------------------------------------------------------
VARIABLES
    mode,        \* parser run: "primary" (parseXMLData) or "fallback"
    doc,         \* the station elements of the document processed so far
    usedIds,     \* const usedIds = new Set<string>()
    pStations,   \* const stations: GasStation[] of the parser run
    pSrc,        \* history: for each pushed station, the index of its element
    ppc,         \* "parsing" | "returned"
    feedPrice,   \* the price text of the fuel element of a one-fuel document
    stations,    \* App: useKV('gas-stations'), the held dataset
    isLoading,   \* App: useState(false)
    error,       \* App: useState<string | null>(null); <<>> is null
    mounted,     \* App: whether the mount effect has run
    calls,       \* the loadData calls made so far, each with its fetch state
    scenario,    \* what is explored: "fetch", one loadData call under every
                 \* response; "app", overlapping calls under BriefResponses;
                 \* "query", one call of a mapUtils function on a dataset;
                 \* "open", one call of isStationOpen on a station;
                 \* "services", the services of one station element;
                 \* "scan", a fallback scan over a long text;
                 \* "repair", the encodingFixes table over a text
    feedDoc,     \* the document handed to parseXMLData as a whole
    filters,     \* the MapFilters of the last query
    clock,       \* new Date() of the last isStationOpen call: [day, time]
    called,      \* the query function called last, "none" before any call
    result,      \* what that call returned
    tableFilter, \* App: useKV('station-filters'), the table's FilterState
    scan,        \* the counters of a fallback scan over a long text
    fixing       \* a text under repair by the encodingFixes table

parseVars == <<mode, doc, usedIds, pStations, pSrc, ppc, feedPrice, feedDoc, scan, fixing>>

queryVars == <<filters, clock, called, result>>

appVars == <<stations, isLoading, error, mounted, calls, scenario, tableFilter>>

vars == <<mode, doc, usedIds, pStations, pSrc, ppc, feedPrice,
          stations, isLoading, error, mounted, calls, scenario,
          feedDoc, filters, clock, called, result, tableFilter, scan, fixing>>

\* the FilterState the table starts with
DefaultFilter == [location |-> <<>>, fuels |-> <<>>, services |-> <<>>, features |-> <<>>]

\* the default, and a filter with every part set
TableFilters ==
    { DefaultFilter,
      [location |-> <<"P">>, fuels |-> << <<"G">> >>, services |-> << <<"W">> >>,
       features |-> << <<"h">> >>] }

\* no fallback scan and no repair is under way
RepairIdle == scan = <<>> /\ fixing = <<>>

\* no query has been made
QueryIdle ==
    /\ filters = <<>>
    /\ clock = <<>>
    /\ called = "none"
    /\ result = <<>>

\* while (... && index < 10000)
MaxFallbackStations == 10000

\* ------------------------------------------------------------------------
\* One parser run over a document read element by element
\* ------------------------------------------------------------------------
AppIdle ==
    /\ stations = <<>>
    /\ isLoading = FALSE
    /\ error = <<>>
    /\ mounted = FALSE
    /\ calls = <<>>
    /\ scenario = "fetch"
    /\ tableFilter = DefaultFilter

ParseInit ==
    /\ mode \in {"primary", "fallback"}
    /\ doc = <<>>
    /\ usedIds = {}
    /\ pStations = <<>>
    /\ pSrc = <<>>
    /\ ppc = "parsing"
    /\ feedPrice = <<>>
    /\ feedDoc = <<>>
    /\ AppIdle
    /\ QueryIdle
    /\ RepairIdle

\* catch (error) { console.warn(...) } inside the loop body: an error of one
\* iteration is swallowed there and the loop goes on
AfterElementRethrow(pdv) == IF pdv.throws # "no" THEN "failed" ELSE "parsing"

AfterElement(pdv) == "parsing"

\* one iteration of pdvElements.forEach / of the while loop over matches
ParseStation(pdv) ==
    /\ ppc = "parsing"
    /\ Len(doc) < MaxRecords
    /\ mode = "fallback" => Len(doc) < MaxFallbackStations
    /\ \E r \in {ParseElement(mode, pdv, Len(doc), usedIds, pStations)} :
           /\ usedIds' = r.usedIds
           /\ pStations' = r.stations
           /\ pSrc' = IF Len(r.stations) = Len(pStations) THEN pSrc
                      ELSE Append(pSrc, Len(doc) + 1)
    /\ doc' = Append(doc, pdv)
    /\ ppc' = AfterElement(pdv)
    /\ UNCHANGED <<mode, feedPrice, feedDoc, scan, fixing>>
    /\ UNCHANGED appVars
    /\ UNCHANGED queryVars

\* return stations
ParseReturn ==
    /\ ppc = "parsing"
    /\ ppc' = "returned"
    /\ UNCHANGED <<mode, doc, usedIds, pStations, pSrc, feedPrice, feedDoc, scan, fixing>>
    /\ UNCHANGED appVars
    /\ UNCHANGED queryVars

ParseNext ==
    \/ \E pdv \in Elements : ParseStation(pdv)
    \/ ParseReturn

ParseSpec == ParseInit /\ [][ParseNext]_vars

\* A document of one station element holding one fuel element whose price
\* text is any text of PriceTexts
PriceInit ==
    /\ mode \in {"primary", "fallback"}
    /\ doc = <<>>
    /\ usedIds = {}
    /\ pStations = <<>>
    /\ pSrc = <<>>
    /\ ppc = "parsing"
    /\ feedPrice \in PriceTexts
    /\ feedDoc = <<>>
    /\ AppIdle
    /\ QueryIdle
    /\ RepairIdle

ParsePricedStation ==
    /\ doc = <<>>
    /\ ParseStation(Pdv(NoAttrs, <<>>, <<Prix(feedPrice)>>, "no"))

PriceNext ==
    \/ ParsePricedStation
    \/ ParseReturn

PriceSpec == PriceInit /\ [][PriceNext]_vars

\* ------------------------------------------------------------------------
\* Properties of one parser run (ParseSpec, PriceSpec)
\* ------------------------------------------------------------------------
\* the station object the running parser builds from element i of doc
BuiltStation(i) ==
    IF mode = "primary" THEN PrimaryStation(doc[i], <<"i">>)
    ELSE FallbackStation(doc[i], <<"i">>)

\* the raw coordinate texts the running parser reads from element i of doc
RawLatitudeText(i) ==
    IF mode = "primary" THEN FirstOf(doc[i].attrs, <<"latitude", "lat", "y">>)
    ELSE Attr(BlockAttributes(doc[i].attrs, doc[i].children), "latitude")

RawLongitudeText(i) ==
    IF mode = "primary" THEN FirstOf(doc[i].attrs, <<"longitude", "lng", "lon", "x">>)
    ELSE Attr(BlockAttributes(doc[i].attrs, doc[i].children), "longitude")

\* number x equals number y divided by 10^k
IsScaled(x, y, k) ==
    /\ ~x.nan /\ ~y.nan
    /\ x.neg = y.neg
    /\ x.m * Pow10(y.d + k) = y.m * Pow10(x.d)

\* C6: in the list built by one parse, primary or fallback, no two stations
\* have the same id, whatever ids the source elements carry.
C6_IdsPairwiseDistinct ==
    \A i, j \in 1..Len(pStations) : i # j => pStations[i].id # pStations[j].id

\* the elements carried the ids 'a-1', 'a', 'a' and all three were kept
C6_Witness ==
    /\ ppc = "returned"
    /\ Len(doc) = 3 /\ Len(pStations) = 3
    /\ \A i \in 1..3 : doc[i].throws = "no"
    /\ Attr(doc[1].attrs, "id") = <<"a", "-", "1">>
    /\ Attr(doc[2].attrs, "id") = <<"a">>
    /\ Attr(doc[3].attrs, "id") = <<"a">>
    /\ pStations[3].id = <<"a", "-", "2">>

\* C7: in every station produced by either parser latitude and longitude are
\* both present or both absent, and when both raw values are non-zero each
\* stored value is raw/100000.
C7_CoordinatePairAtomic ==
    \A k \in 1..Len(pStations) :
        LET st     == pStations[k]
            rawLat == RawCoordinate(RawLatitudeText(pSrc[k]))
            rawLon == RawCoordinate(RawLongitudeText(pSrc[k]))
        IN  /\ (st.latitude = <<>>) <=> (st.longitude = <<>>)
            /\ (rawLat.m # 0 /\ rawLon.m # 0) =>
                   /\ st.latitude # <<>> /\ st.longitude # <<>>
                   /\ IsScaled(st.latitude[1], rawLat, 5)
                   /\ IsScaled(st.longitude[1], rawLon, 5)

\* C8: for a fuel element with raw price p (comma or dot decimal) the stored
\* price is p/1000 if p > 10 and p otherwise, the fuel is stored exactly when
\* that price is strictly positive, and so every stored fuel has price > 0.
C8_PriceNormalised ==
    LET p == ParseFloat(ReplaceFirstComma(feedPrice))
        positive == ~p.nan /\ ~p.neg /\ p.m > 0
        above10  == ~p.nan /\ ~p.neg /\ p.m > 10 * Pow10(p.d)
    IN  /\ \A k \in 1..Len(pStations) : \A n \in 1..Len(pStations[k].fuels) :
              LET price == pStations[k].fuels[n].price
              IN  /\ ~price.nan /\ ~price.neg /\ price.m > 0
                  /\ IsScaled(price, p, IF above10 THEN 3 ELSE 0)
        /\ Len(doc) = 1 =>
              ((Len(pStations) = 1 /\ Len(pStations[1].fuels) = 1) <=> positive)

\* a scaled price written with a comma-free integer above 10 was stored
C8_Witness ==
    /\ ppc = "returned"
    /\ feedPrice = <<"1", "5", "0">>
    /\ Len(pStations) = 1
    /\ pStations[1].fuels[1].price = [nan |-> FALSE, neg |-> FALSE, m |-> 15, d |-> 2]

\* C9: an element whose extraction does not raise is in the result if and
\* only if it has a non-empty id and a non-empty city, a present coordinate
\* pair, a retained fuel or a brand.
C9_AcceptanceRule ==
    \A i \in 1..Len(doc) :
        doc[i].throws = "no" =>
            LET st == BuiltStation(i)
                kept == \E k \in 1..Len(pSrc) : pSrc[k] = i
            IN  kept <=> /\ st.id # <<>>
                         /\ \/ st.city # <<>>
                            \/ (st.latitude # <<>> /\ st.longitude # <<>>)
                            \/ Len(st.fuels) > 0
                            \/ st.brand # <<>>

\* C10: an error raised while extracting one element omits only that
\* element: the parse does not fail, and the stations returned are exactly
\* those of the elements that raise no error and pass the acceptance test,
\* in document order.
C10_ErrorSkipsOnlyThatStation ==
    /\ ppc \in {"parsing", "returned"}
    /\ Len(pSrc) = Len(pStations)
    /\ \A k \in 1..Len(pSrc) : doc[pSrc[k]].throws = "no"
    /\ \A k \in 1..Len(pSrc) - 1 : pSrc[k] < pSrc[k + 1]
    /\ \A i \in 1..Len(doc) :
          (doc[i].throws = "no" /\ HasMeaningfulData(BuiltStation(i)))
              => \E k \in 1..Len(pSrc) : pSrc[k] = i

\* the second of three elements raised; the first and the third are returned
C10_Witness ==
    /\ ppc = "returned"
    /\ Len(doc) = 3
    /\ doc[2].throws = "late"
    /\ pSrc = <<1, 3>>
    /\ Len(pStations) = 2

\* ------------------------------------------------------------------------
\* parseXMLData over a whole document.  A document is
\*   [wellFormed  : whether DOMParser parses the repaired text (when it does
\*                  not, the document it returns holds a parsererror element),
\*    parsererror : whether the text itself holds an element of that name,
\*    tag         : the element name its station elements use,
\*    elements    : its station elements in document order]
\* ------------------------------------------------------------------------
possibleSelectors == {"pdv", "station", "point-de-vente", "pdv_id", "gasStation", "fuel-station"}

\* stationRegex = /<pdv[^>]*>(.*?)<\/pdv>/gs finds the <pdv> blocks only, and
\* the loop stops at index 10000
ParseXMLWithFallback(document) ==
    IF document.tag = "pdv"
    THEN ParseFrom("fallback",
                   SubSeq(document.elements, 1,
                          IF Len(document.elements) < MaxFallbackStations
                          THEN Len(document.elements) ELSE MaxFallbackStations),
                   0, ParseStart).stations
    ELSE <<>>

\* const parseError = xmlDoc.querySelector('parsererror'); if (parseError)
HasParseError(document) == ~document.wellFormed \/ document.parsererror

ParseXMLData(document) ==
    IF HasParseError(document)
    THEN [threw |-> FALSE, message |-> "", fallback |-> TRUE,
          data |-> ParseXMLWithFallback(document)]
    ELSE IF ~(document.tag \in possibleSelectors /\ Len(document.elements) > 0)
    THEN [threw |-> TRUE, message |-> "No gas station elements found in XML",
          fallback |-> FALSE, data |-> <<>>]
    ELSE [threw |-> FALSE, message |-> "", fallback |-> FALSE,
          data |-> ParseFrom("primary", document.elements, 0, ParseStart).stations]

\* ------------------------------------------------------------------------
\* One call of parseXMLData on a whole document
\* ------------------------------------------------------------------------
MaxDocElements == 2

\* a station element that is kept, one that is not, one that raises
DocElements ==
    {Pdv([id |-> <<"a">>], SomeCity, <<>>, "no"),
     Pdv(NoAttrs, <<>>, <<>>, "no"),
     Pdv([id |-> <<"a">>], SomeCity, <<>>, "late")}

Documents ==
    {[wellFormed |-> w, parsererror |-> e, tag |-> t, elements |-> es] :
        w \in BOOLEAN, e \in BOOLEAN, t \in {"pdv", "station", "row"},
        es \in UNION {[1..n -> DocElements] : n \in 0..MaxDocElements}}

DocInit ==
    /\ mode = "none"
    /\ doc = <<>>
    /\ usedIds = {}
    /\ pStations = <<>>
    /\ pSrc = <<>>
    /\ ppc = "parsing"
    /\ feedPrice = <<>>
    /\ feedDoc \in Documents
    /\ AppIdle
    /\ QueryIdle
    /\ RepairIdle

\* parseXMLData(xmlContent) from its call to its return or throw; mode
\* records the parser that built the result
ParseDocument ==
    /\ ppc = "parsing"
    /\ \E parsed \in {ParseXMLData(feedDoc)} :
           /\ mode' = IF parsed.fallback THEN "fallback" ELSE "primary"
           /\ pStations' = parsed.data
           /\ ppc' = IF parsed.threw THEN "failed" ELSE "returned"
    /\ UNCHANGED <<doc, usedIds, pSrc, feedPrice, feedDoc, scan, fixing>>
    /\ UNCHANGED appVars
    /\ UNCHANGED queryVars

DocNext == ParseDocument

DocSpec == DocInit /\ [][DocNext]_vars

\* C11: parseXMLWithFallback is invoked if and only if the tree parse of the
\* repaired text reports a structural error; when the text is well formed
\* the fallback parser is never invoked.
C11_FallbackOnlyOnParseError ==
    ppc # "parsing" => (mode = "fallback" <=> ~feedDoc.wellFormed)

\* ------------------------------------------------------------------------
\* fetchGasStationData: one attempt.  A response is
\*   [rejected : fetch() rejects (network error, CORS),
\*    ok       : response.ok,
\*    bytes    : the first bytes of the body,
\*    zip      : what JSZip finds: "corrupt" (loadAsync rejects), "noxml",
\*               "blank" (an .xml entry of blanks only), "xml",
\*    document : the document of the .xml entry]
\* ------------------------------------------------------------------------
endpoints == <<"opendata/jour", "opendata/instantane">>

attempts == <<"codetabs", "htmldriven", "allorigins", "cors-anywhere", "direct", "corsproxy.io">>

\* uint8Array[0] === 0x50 && uint8Array[1] === 0x4B
IsPKZip(bytes) == Len(bytes) >= 2 /\ bytes[1] = 80 /\ bytes[2] = 75

\* an error thrown inside the try block, with its message
Failure(message) == [ok |-> FALSE, message |-> message, data |-> <<>>]

\* return parseXMLData(xmlContent), inside the try block
ReturnParsed(parsed) ==
    IF parsed.threw THEN Failure(parsed.message)
    ELSE [ok |-> TRUE, message |-> "", data |-> parsed.data]

\* the body of the try block: the data returned, or the message of the error
\* thrown
AttemptResult(resp) ==
    IF resp.rejected THEN Failure("Failed to fetch")
    ELSE IF ~resp.ok THEN Failure("HTTP Error")
    ELSE IF Len(resp.bytes) = 0 THEN Failure("Empty response received from server")
    ELSE IF ~IsPKZip(resp.bytes)
         THEN Failure("Response is not a valid zip file. Got text response instead.")
    ELSE IF resp.zip = "corrupt" THEN Failure("Corrupted zip")
    ELSE IF resp.zip = "noxml" THEN Failure("No XML file found in the zip archive")
    ELSE IF resp.zip = "blank" THEN Failure("XML file appears to be empty")
    ELSE ReturnParsed(ParseXMLData(resp.document))

NextPositionStrategyFirst(endpoint, attempt) ==
    IF endpoint < Len(endpoints) THEN <<endpoint + 1, attempt>>
    ELSE IF attempt < Len(attempts) THEN <<1, attempt + 1>>
    ELSE <<>>

\* for (const baseUrl of endpoints) { for (const attempt of attempts) { ... } }:
\* the position after (endpoint, attempt), or <<>> when both loops are over
NextPosition(endpoint, attempt) ==
    IF attempt < Len(attempts) THEN <<endpoint, attempt + 1>>
    ELSE IF endpoint < Len(endpoints) THEN <<endpoint + 1, 1>>
    ELSE <<>>

RecordErrorKeepFirst(lastError, message) ==
    IF lastError = <<>> THEN <<message>> ELSE lastError

\* lastError = error instanceof Error ? error : new Error(String(error))
RecordError(lastError, message) == <<message>>

\* `Failed to fetch data from all endpoints. Last error: ${lastError?.message ||
\* 'Unknown error'}. Possible solutions: ...`
FinalError(lastError) ==
    <<"Failed to fetch data from all endpoints. Last error: ",
      IF lastError = <<>> THEN "Unknown error" ELSE lastError[1],
      "Possible solutions">>

\* ------------------------------------------------------------------------
\* Inputs of the application: feed documents and responses
\* ------------------------------------------------------------------------
FeedElementLists ==
    {<<>>,
     <<Pdv([id |-> <<"b">>], SomeCity, <<>>, "no")>>,
     <<Pdv([id |-> <<"a">>], SomeCity, <<>>, "no"),
       Pdv([id |-> <<"a">>], SomeCity, <<>>, "no")>>}

FeedDocs ==
    {[wellFormed |-> w, parsererror |-> FALSE, tag |-> "pdv", elements |-> es] :
        w \in BOOLEAN, es \in FeedElementLists}

NoDocument == [wellFormed |-> FALSE, parsererror |-> FALSE, tag |-> "", elements |-> <<>>]

Response(rejected, ok, bytes, zip, document) ==
    [rejected |-> rejected, ok |-> ok, bytes |-> bytes, zip |-> zip, document |-> document]

Responses ==
    {Response(TRUE, FALSE, <<>>, "corrupt", NoDocument),
     Response(FALSE, FALSE, <<>>, "corrupt", NoDocument)}
    \cup {Response(FALSE, TRUE, b, "corrupt", NoDocument) :
            b \in {<<>>, <<60, 104, 116, 109>>, <<80, 75, 3, 4>>}}
    \cup {Response(FALSE, TRUE, <<80, 75, 3, 4>>, z, NoDocument) : z \in {"noxml", "blank"}}
    \cup {Response(FALSE, TRUE, <<80, 75, 3, 4>>, "xml", d) : d \in FeedDocs}

\* the outcome of an attempt under each response, tabulated
AttemptResults == [resp \in Responses |-> AttemptResult(resp)]

\* Runs with several overlapping loadData calls are explored with these
\* responses only: one kind of failure, and the archives whose document
\* holds stations or is read by the fallback parser
BriefResponses ==
    {Response(TRUE, FALSE, <<>>, "corrupt", NoDocument)}
    \cup {Response(FALSE, TRUE, <<80, 75, 3, 4>>, "xml", d) :
            d \in {f \in FeedDocs : ~f.wellFormed \/ f.elements # <<>>}}

\* the datasets a session can find in the key-value store when it starts
CachedDatasets == {AttemptResults[resp].data : resp \in Responses}

\* ------------------------------------------------------------------------
\* App: loadData, clearData and the effect on [stations?.length, loadData]
\* ------------------------------------------------------------------------
ParseIdle ==
    /\ mode = "primary"
    /\ doc = <<>>
    /\ usedIds = {}
    /\ pStations = <<>>
    /\ pSrc = <<>>
    /\ ppc = "returned"
    /\ feedPrice = <<>>
    /\ feedDoc = <<>>

Init ==
    /\ stations \in CachedDatasets
    /\ isLoading = FALSE
    /\ error = <<>>
    /\ mounted = FALSE
    /\ calls = <<>>
    /\ scenario \in {"fetch", "app"}
    /\ tableFilter \in TableFilters
    /\ ParseIdle
    /\ QueryIdle
    /\ RepairIdle

\* the number of loadData calls explored, and the responses they receive
CallLimit == IF scenario = "fetch" THEN 1 ELSE MaxRefreshes

ScenarioResponses == IF scenario = "fetch" THEN Responses ELSE BriefResponses

\* A loadData call that has run to its first await: setIsLoading(true),
\* setError(null), and fetchGasStationData has issued its first request.
\* log, failed, lastResp, held, after and disturbed are history: the attempts
\* started, the number of attempts that failed, the last response received,
\* the dataset held when the call started and when it ended, and whether
\* something else changed the dataset while the call was running.
NewCall(held) ==
    [pc |-> "awaiting", endpoint |-> 1, attempt |-> 1, lastError |-> <<>>,
     hung |-> FALSE, thrown |-> <<>>, returned |-> <<>>,
     log |-> << <<1, 1>> >>, failed |-> 0, lastResp |-> <<>>,
     held |-> held, after |-> <<>>, disturbed |-> FALSE]

\* history: a setStations that changed the dataset is noted in every call
\* still running
Disturb(cs, changed) ==
    [k \in DOMAIN cs |->
        IF changed /\ cs[k].pc = "awaiting" THEN [cs[k] EXCEPT !.disturbed = TRUE]
        ELSE cs[k]]

\* setStations(data)
SetStationsMerged(current, data) == current \o data

SetStations(current, data) == data

FiltersAfterSuccessCleared(current) == DefaultFilter

\* setFilters(current => ({ location: current?.location || '', fuels:
\* current?.fuels || [], features: current?.features || [], services: [] }))
FiltersAfterSuccess(current) ==
    [location |-> current.location, fuels |-> current.fuels,
     features |-> current.features, services |-> <<>>]

\* the catch block of loadData makes no call of setStations
StationsAfterFailureCleared(current) == <<>>

StationsAfterFailure(current) == current

\* useEffect(..., [stations?.length, loadData]) after the dataset went from
\* before to now: it runs when the length changed, and calls loadData when
\* the dataset is empty
EffectLoads(before, now) == Len(before) # Len(now) /\ Len(now) = 0

\* the state after a handler that left the dataset as now, with the calls as
\* cs and the loading flag as loading, once the effect has run
AfterEffect(before, now, cs, loading) ==
    IF EffectLoads(before, now)
    THEN /\ Len(cs) < CallLimit
         /\ calls' = Append(cs, NewCall(now))
         /\ isLoading' = TRUE
         /\ error' = <<>>
    ELSE /\ calls' = cs
         /\ isLoading' = loading
         /\ UNCHANGED error

\* first render: the effect runs once, and loads when nothing is cached
Mount ==
    /\ ~mounted
    /\ mounted' = TRUE
    /\ IF Len(stations) = 0
       THEN /\ calls' = Append(calls, NewCall(stations))
            /\ isLoading' = TRUE
            /\ error' = <<>>
       ELSE UNCHANGED <<calls, isLoading, error>>
    /\ UNCHANGED <<stations, scenario, tableFilter>>
    /\ UNCHANGED parseVars
    /\ UNCHANGED queryVars

\* <Button onClick={loadData} disabled={isLoading}>
ClickRefresh ==
    /\ mounted
    /\ ~isLoading
    /\ Len(calls) < CallLimit
    /\ calls' = Append(calls, NewCall(stations))
    /\ isLoading' = TRUE
    /\ error' = <<>>
    /\ UNCHANGED <<stations, mounted, scenario, tableFilter>>
    /\ UNCHANGED parseVars
    /\ UNCHANGED queryVars

\* <Button onClick={clearData}>: setStations([]), then the effect
ClearData ==
    /\ mounted
    /\ stations' = <<>>
    /\ AfterEffect(stations, <<>>, Disturb(calls, stations # <<>>), isLoading)
    /\ UNCHANGED <<mounted, scenario, tableFilter>>
    /\ UNCHANGED parseVars
    /\ UNCHANGED queryVars

\* The pending request of call r completes with resp and the call runs on to
\* its next await or to its end.
Respond(r, resp) ==
    /\ r \in DOMAIN calls
    /\ calls[r].pc = "awaiting"
    /\ ~calls[r].hung
    /\ \E res \in {AttemptResults[resp]} :
       LET c   == calls[r]
           nxt == NextPosition(c.endpoint, c.attempt)
           err == RecordError(c.lastError, res.message)
       IN  IF res.ok
           THEN \* return parseXMLData(xmlContent); loadData: setStations(data),
                \* finally setIsLoading(false); then the effect
                LET now == SetStations(stations, res.data)
                IN  /\ stations' = now
                    /\ tableFilter' = FiltersAfterSuccess(tableFilter)
                    /\ AfterEffect(stations, now,
                          Disturb([calls EXCEPT ![r] =
                                      [c EXCEPT !.pc = "succeeded",
                                                !.returned = <<res.data>>,
                                                !.lastResp = <<resp>>, !.after = now]],
                                  now # stations),
                          FALSE)
           ELSE IF nxt # <<>>
           THEN \* catch: lastError = error; continue; the next request is issued
                /\ calls' = [calls EXCEPT ![r] =
                      [c EXCEPT !.endpoint = nxt[1], !.attempt = nxt[2],
                                !.lastError = err, !.lastResp = <<resp>>,
                                !.failed = @ + 1, !.log = Append(@, nxt)]]
                /\ UNCHANGED <<stations, isLoading, error, tableFilter>>
           ELSE \* throw new Error(finalError); loadData: catch setError(message),
                \* finally setIsLoading(false)
                LET now == StationsAfterFailure(stations)
                IN  /\ stations' = now
                    /\ calls' = [calls EXCEPT ![r] =
                          [c EXCEPT !.pc = "failed", !.lastError = err,
                                    !.thrown = FinalError(err), !.lastResp = <<resp>>,
                                    !.failed = @ + 1, !.after = now]]
                    /\ error' = <<FinalError(err)>>
                    /\ isLoading' = FALSE
                    /\ UNCHANGED tableFilter
    /\ UNCHANGED <<mounted, scenario>>
    /\ UNCHANGED parseVars
    /\ UNCHANGED queryVars

\* <Button onClick={clearFilters}>
ClearFilters ==
    /\ mounted
    /\ tableFilter # DefaultFilter
    /\ tableFilter' = DefaultFilter
    /\ UNCHANGED <<stations, isLoading, error, mounted, calls, scenario>>
    /\ UNCHANGED parseVars
    /\ UNCHANGED queryVars

\* The environment: the pending request of call r never completes.  fetch()
\* is called without a signal, and nothing in the code sets a timer.
RequestHangs(r) ==
    /\ r \in DOMAIN calls
    /\ calls[r].pc = "awaiting"
    /\ ~calls[r].hung
    /\ calls' = [calls EXCEPT ![r].hung = TRUE]
    /\ UNCHANGED <<stations, isLoading, error, mounted, scenario, tableFilter>>
    /\ UNCHANGED parseVars
    /\ UNCHANGED queryVars

Next ==
    \/ Mount
    \/ ClickRefresh
    \/ ClearData
    \/ ClearFilters
    \/ \E r \in 1..MaxRefreshes : \E resp \in ScenarioResponses : Respond(r, resp)
    \/ \E r \in 1..MaxRefreshes : RequestHangs(r)

Spec == Init /\ [][Next]_vars

\* A request that is not left hanging is eventually answered, and the
\* continuation of the call then runs: the event loop resumes every awaited
\* promise that settles.
FairSpec ==
    /\ Init
    /\ [][Next]_vars
    /\ \A r \in 1..MaxRefreshes : WF_vars(\E resp \in ScenarioResponses : Respond(r, resp))

\* ------------------------------------------------------------------------
\* Properties of fetchGasStationData and App.loadData (Spec, FairSpec)
\* ------------------------------------------------------------------------
\* the attempts in the order of the two nested loops
AttemptOrder ==
    [k \in 1..(Len(endpoints) * Len(attempts)) |->
        <<((k - 1) \div Len(attempts)) + 1, ((k - 1) % Len(attempts)) + 1>>]

\* the attempts of call c were started in loop order, each once, and each
\* after all the earlier ones had failed
InLoopOrder(c) ==
    /\ Len(c.log) <= Len(AttemptOrder)
    /\ \A k \in 1..Len(c.log) : c.log[k] = AttemptOrder[k]
    /\ c.failed = IF c.pc = "failed" THEN Len(c.log) ELSE Len(c.log) - 1
    /\ c.pc = "failed" => Len(c.log) = Len(AttemptOrder)
    /\ c.pc = "awaiting" => <<c.endpoint, c.attempt>> = c.log[Len(c.log)]

\* a call that has ended starts no further attempt
EndedCallsRest ==
    \A r \in DOMAIN calls : calls[r].pc # "awaiting" => calls'[r] = calls[r]

\* response resp is a non-empty payload carrying the archive signature
IsSignedPayload(resp) == ~resp.rejected /\ resp.ok /\ IsPKZip(resp.bytes)

Fails(r) == calls[r].pc = "awaiting" /\ calls'[r].pc = "failed"

\* a step in which an attempt of call r fails and the call goes on
AttemptFails(r) ==
    /\ calls[r].pc = "awaiting" /\ calls'[r].pc = "awaiting"
    /\ calls'[r].failed = calls[r].failed + 1

\* C2: no step of a refresh that ends in failure changes the held dataset,
\* and the failing step sets the error notification; after the failure the
\* dataset equals the one held when the refresh started unless clearData or
\* the success of another refresh changed it while the refresh was running.
C2_FailedRefreshKeepsDataset ==
    /\ [](\A r \in DOMAIN calls :
            calls[r].pc = "failed" =>
                calls[r].disturbed \/ calls[r].after = calls[r].held)
    /\ [][\A r \in DOMAIN calls :
            /\ AttemptFails(r) => stations' = stations
            /\ Fails(r) => /\ stations' = stations
                           /\ calls'[r].after = stations
                           /\ error' = <<calls'[r].thrown>>
                           /\ isLoading' = FALSE]_vars

\* a refresh started over a cached dataset failed and the dataset is still
\* there, with the error set
C2_Witness ==
    \E r \in DOMAIN calls :
        /\ calls[r].pc = "failed"
        /\ ~calls[r].disturbed
        /\ calls[r].held # <<>>
        /\ stations = calls[r].held
        /\ error = <<calls[r].thrown>>

\* C2 as stated: after a failed refresh the dataset equals the one held
\* immediately before that refresh started.
C2_EqualsDatasetAtStart ==
    \A r \in DOMAIN calls :
        calls[r].pc = "failed" => calls[r].after = calls[r].held

\* the step in which call r succeeds
Succeeds(r) == calls[r].pc = "awaiting" /\ calls'[r].pc = "succeeded"

\* C3: every change of the held dataset made by a refresh replaces it in one
\* step by the complete list returned by one successful run; the dataset is
\* at all times the complete result of one run (or empty), never a mix of
\* two results or a part of one.
C3_DatasetReplacedWholesale ==
    /\ [](stations \in CachedDatasets)
    /\ [][/\ \A r \in DOMAIN calls :
               Succeeds(r) =>
                   /\ calls'[r].lastResp # <<>>
                   /\ stations' = AttemptResults[calls'[r].lastResp[1]].data
                   /\ calls'[r].returned = <<stations'>>
          /\ stations' # stations =>
               \/ \E r \in DOMAIN calls : Succeeds(r)
               \/ stations' = <<>>]_vars

\* a one-station dataset was replaced by the two stations of a new run
C3_Witness ==
    \E r \in DOMAIN calls :
        /\ calls[r].pc = "succeeded"
        /\ Len(calls[r].held) = 1
        /\ Len(calls[r].returned[1]) = 2
        /\ stations = calls[r].returned[1]
        /\ \A k \in 1..2 : stations[k].id # calls[r].held[1].id

\* C4: when every attempt has failed the call throws one error whose message
\* holds the message of the failure of the last attempt together with the
\* remediation text, and returns no dataset.
C4_FinalErrorCarriesLastFailure ==
    \A r \in DOMAIN calls :
        calls[r].pc = "failed" =>
            /\ calls[r].lastResp # <<>>
            /\ calls[r].failed = Len(AttemptOrder)
            /\ calls[r].returned = <<>>
            /\ calls[r].thrown =
                  <<"Failed to fetch data from all endpoints. Last error: ",
                    AttemptResults[calls[r].lastResp[1]].message,
                    "Possible solutions">>

\* every attempt failed and the last one found no XML entry in the archive
C4_Witness ==
    \E r \in DOMAIN calls :
        /\ calls[r].pc = "failed"
        /\ calls[r].lastResp[1].zip = "noxml"
        /\ calls[r].thrown[2] = "No XML file found in the zip archive"

\* C5: every call of fetchGasStationData eventually returns a dataset or
\* fails, also when a request never completes.
C5_EveryCallEnds ==
    \A r \in 1..MaxRefreshes :
        (r \in DOMAIN calls) ~> (r \in DOMAIN calls /\ calls[r].pc # "awaiting")

\* response resp delivers a document that fails the structural parse and
\* from which the fallback parser extracts no station
IsEmptyFallback(resp) ==
    /\ IsSignedPayload(resp)
    /\ resp.zip = "xml"
    /\ HasParseError(resp.document)
    /\ ParseXMLWithFallback(resp.document) = <<>>

\* C12: a refresh whose markup fails the structural parse and from which the
\* fallback parser extracts no station ends in failure there, and the
\* dataset held before is retained, not replaced by an empty list.
C12_EmptyFallbackFails ==
    \A r \in DOMAIN calls :
        (calls[r].lastResp # <<>> /\ IsEmptyFallback(calls[r].lastResp[1])) =>
            /\ calls[r].pc = "failed"
            /\ calls[r].disturbed \/ calls[r].after = calls[r].held

\* ------------------------------------------------------------------------
\* mapUtils: numbers of the query functions.  An optional number is <<>>
\* (null or undefined) or <<n>>.
\* ------------------------------------------------------------------------
Signed(n) == IF n.neg THEN 0 - n.m ELSE n.m

\* the integer n * 10^D of a number with at most D decimals
ScaledTo(n, D) == Signed(n) * Pow10(D - n.d)

Decimals(x, y) == IF x.d > y.d THEN x.d ELSE y.d

\* x < y and x <= y for numbers that are not NaN
NumLess(x, y) == ScaledTo(x, Decimals(x, y)) < ScaledTo(y, Decimals(x, y))

NumLeq(x, y) == ScaledTo(x, Decimals(x, y)) <= ScaledTo(y, Decimals(x, y))

\* the number v / 10^d of an integer v
Decimal(v, d) ==
    Normalize([nan |-> FALSE, neg |-> v < 0, m |-> IF v < 0 THEN 0 - v ELSE v, d |-> d])

\* |x - y|
AbsDifference(x, y) ==
    IF NumLess(x, y)
    THEN Decimal(ScaledTo(y, Decimals(x, y)) - ScaledTo(x, Decimals(x, y)), Decimals(x, y))
    ELSE Decimal(ScaledTo(x, Decimals(x, y)) - ScaledTo(y, Decimals(x, y)), Decimals(x, y))

\* R * (pi / 180) in metres: the length of one degree of a great circle
MetresPerDegree == 111195

\* calculateDistance for two points of one meridian (lon1 = lon2, as all
\* points of the model are): dLon = 0, so a = sin^2(dLat / 2),
\* c = 2 * atan2(sqrt(a), sqrt(1 - a)) = |dLat| in radians, and the result
\* is R * |lat2 - lat1| * pi / 180 kilometres
CalculateDistance(lat1, lon1, lat2, lon2) ==
    Decimal(AbsDifference(lat1, lat2).m * MetresPerDegree, AbsDifference(lat1, lat2).d + 3)

\* !x for an optional number: undefined, 0 and NaN are falsy
Falsy(opt) == opt = <<>> \/ ~Truthy(opt[1])

\* a sort key: a number, or Infinity
FiniteKey(n) == [inf |-> FALSE, n |-> n]

InfiniteKey == [inf |-> TRUE, n |-> Decimal(0, 0)]

\* (x || 0) and (x || Infinity) for an optional number
OrZero(opt) == IF Falsy(opt) THEN FiniteKey(Decimal(0, 0)) ELSE FiniteKey(opt[1])

OrInfinity(opt) == IF Falsy(opt) THEN InfiniteKey ELSE FiniteKey(opt[1])

\* keyA - keyB < 0.  Infinity - Infinity is NaN, which sort takes as 0.
KeyLess(a, b) == ~a.inf /\ (b.inf \/ NumLess(a.n, b.n))

RECURSIVE InsertByKey(_, _)
\* entry e put into the sorted entries after every entry that does not
\* compare greater than it
InsertByKey(sorted, e) ==
    IF sorted = <<>> THEN <<e>>
    ELSE IF KeyLess(e.key, Head(sorted).key) THEN <<e>> \o sorted
    ELSE <<Head(sorted)>> \o InsertByKey(Tail(sorted), e)

RECURSIVE SortByKey(_)
\* Array.prototype.sort with the comparator (a, b) => key(a) - key(b): a
\* stable sort of the entries [key, item], ascending by key
SortByKey(entries) ==
    IF entries = <<>> THEN <<>>
    ELSE InsertByKey(SortByKey(SubSeq(entries, 1, Len(entries) - 1)),
                     entries[Len(entries)])

\* the items of entries, in order
Items(entries) == [k \in 1..Len(entries) |-> entries[k].item]

\* array.slice(0, n) for n >= 0
Slice(array, n) == SubSeq(array, 1, IF n < Len(array) THEN n ELSE Len(array))

\* ------------------------------------------------------------------------
\* mapUtils: filterStationsForMap and getTopNStations.  MapFilters is
\*   [fuelType : a text, '' or 'all' for no fuel filter,
\*    maxStations, maxPrice, maxDistance, userLatitude, userLongitude, topN :
\*    optional numbers (topN and maxStations optional naturals),
\*    topNOrderBy : "distance" | "price"]
\* ------------------------------------------------------------------------
AllFuels == <<"a", "l", "l">>

\* filters.fuelType && filters.fuelType !== 'all'
HasFuelFilter(f) == f.fuelType # <<>> /\ f.fuelType # AllFuels

\* filters.userLatitude !== null && filters.userLongitude !== null
HasUserLocation(f) == f.userLatitude # <<>> /\ f.userLongitude # <<>>

\* station.fuels.filter(f => f.name === fuelType)
FuelsNamed(fuels, fuelType) == SelectSeq(fuels, LAMBDA fuel : fuel.name = fuelType)

\* station.fuels.find(f => f.name === fuelType)?.price
FuelPriceOf(fuels, fuelType) ==
    IF FuelsNamed(fuels, fuelType) = <<>> THEN <<>>
    ELSE <<FuelsNamed(fuels, fuelType)[1].price>>

ExceedsOrEquals(price, maxPrice) == NumLeq(maxPrice, price)

\* fuel.price > filters.maxPrice
Exceeds(price, maxPrice) == NumLess(maxPrice, price)

\* !fuel || !fuel.price || fuel.price > filters.maxPrice
FailsMaxPrice(price, maxPrice) == Falsy(price) \/ Exceeds(price[1], maxPrice)

PassesFiltersLatitudeOnly(station, f) ==
    /\ ~Falsy(station.latitude)
    /\ HasFuelFilter(f) => FuelsNamed(station.fuels, f.fuelType) # <<>>
    /\ (f.maxPrice # <<>> /\ HasFuelFilter(f)) =>
           ~FailsMaxPrice(FuelPriceOf(station.fuels, f.fuelType), f.maxPrice[1])

\* the callback of stations.filter in both functions
PassesFilters(station, f) ==
    /\ ~Falsy(station.latitude)
    /\ ~Falsy(station.longitude)
    /\ HasFuelFilter(f) => FuelsNamed(station.fuels, f.fuelType) # <<>>
    /\ (f.maxPrice # <<>> /\ HasFuelFilter(f)) =>
           ~FailsMaxPrice(FuelPriceOf(station.fuels, f.fuelType), f.maxPrice[1])

\* { ...station, distance }
WithDistance(station, distance) ==
    [field \in DOMAIN station \cup {"distance"} |->
        IF field = "distance" THEN distance ELSE station[field]]

\* { ...station, distance, selectedFuelPrice }
WithDistanceAndPrice(station, distance, selectedFuelPrice) ==
    [field \in DOMAIN station \cup {"distance", "selectedFuelPrice"} |->
        IF field = "distance" THEN distance
        ELSE IF field = "selectedFuelPrice" THEN selectedFuelPrice
        ELSE station[field]]

\* calculateDistance(userLatitude, userLongitude, station.latitude, station.longitude)
DistanceFromUser(station, f) ==
    CalculateDistance(f.userLatitude[1], f.userLongitude[1],
                      station.latitude[1], station.longitude[1])

AppliesMaxDistanceAlways(f) == f.maxDistance # <<>>

\* the distance filter is applied only inside the user-location branch
AppliesMaxDistance(f) == f.maxDistance # <<>> /\ HasUserLocation(f)

\* station.distance !== undefined && station.distance <= filters.maxDistance
WithinMaxDistance(station, f) ==
    /\ "distance" \in DOMAIN station
    /\ station.distance # <<>>
    /\ NumLeq(station.distance[1], f.maxDistance[1])

\* array.sort by the keys given for its elements
SortedByKeys(array, keys) ==
    Items(SortByKey([k \in 1..Len(array) |-> [key |-> keys[k], item |-> array[k]]]))

\* the steps of filterStationsForMap
MapFiltered(given, f) == SelectSeq(given, LAMBDA station : PassesFilters(station, f))

MapWithDistances(filtered, f) ==
    IF HasUserLocation(f)
    THEN [k \in 1..Len(filtered) |->
            WithDistance(filtered[k], <<DistanceFromUser(filtered[k], f)>>)]
    ELSE filtered

MapWithinDistance(filtered, f) ==
    IF AppliesMaxDistance(f)
    THEN SelectSeq(filtered, LAMBDA station : WithinMaxDistance(station, f))
    ELSE filtered

\* filteredStations.sort((a, b) => (a.distance || 0) - (b.distance || 0))
MapSortedByDistance(filtered) ==
    SortedByKeys(filtered, [k \in 1..Len(filtered) |-> OrZero(filtered[k].distance)])

\* sort by (fuel?.price || Infinity) of the selected fuel
MapSortedByPrice(filtered, f) ==
    SortedByKeys(filtered,
        [k \in 1..Len(filtered) |-> OrInfinity(FuelPriceOf(filtered[k].fuels, f.fuelType))])

MapRanked(filtered, f) ==
    IF f.topN # <<>>
    THEN Slice(IF f.topNOrderBy = "distance" /\ HasUserLocation(f)
               THEN MapSortedByDistance(filtered)
               ELSE IF f.topNOrderBy = "price" /\ HasFuelFilter(f)
               THEN MapSortedByPrice(filtered, f)
               ELSE filtered,
               f.topN[1])
    ELSE IF f.maxStations # <<>>
    THEN Slice(IF HasUserLocation(f) THEN MapSortedByDistance(filtered) ELSE filtered,
               f.maxStations[1])
    ELSE IF HasUserLocation(f) THEN MapSortedByDistance(filtered)
    ELSE filtered

FilterStationsForMap(given, f) ==
    MapRanked(MapWithinDistance(MapWithDistances(MapFiltered(given, f), f), f), f)

\* station.fuels.filter(f => f.price).sort((a, b) => a.price - b.price)[0]?.price
CheapestPrice(fuels) ==
    IF SelectSeq(fuels, LAMBDA fuel : Truthy(fuel.price)) = <<>> THEN <<>>
    ELSE <<SortedByKeys(SelectSeq(fuels, LAMBDA fuel : Truthy(fuel.price)),
                        [k \in 1..Len(SelectSeq(fuels, LAMBDA fuel : Truthy(fuel.price))) |->
                            FiniteKey(SelectSeq(fuels, LAMBDA fuel : Truthy(fuel.price))[k].price)]
                       )[1].price>>

\* selectedFuelPrice of getTopNStations
SelectedFuelPrice(station, f) ==
    IF HasFuelFilter(f) THEN FuelPriceOf(station.fuels, f.fuelType)
    ELSE IF f.fuelType = AllFuels /\ Len(station.fuels) > 0 THEN CheapestPrice(station.fuels)
    ELSE <<>>

\* the steps of getTopNStations
TopAnnotated(filtered, f) ==
    [k \in 1..Len(filtered) |->
        WithDistanceAndPrice(filtered[k],
            IF HasUserLocation(f) THEN <<DistanceFromUser(filtered[k], f)>> ELSE <<>>,
            SelectedFuelPrice(filtered[k], f))]

\* sort by (a.distance || Infinity)
TopSortedByDistance(filtered) ==
    SortedByKeys(filtered, [k \in 1..Len(filtered) |-> OrInfinity(filtered[k].distance)])

\* sort by (a.selectedFuelPrice || Infinity)
TopSortedByPrice(filtered) ==
    SortedByKeys(filtered,
        [k \in 1..Len(filtered) |-> OrInfinity(filtered[k].selectedFuelPrice)])

TopRanked(filtered, f) ==
    Slice(IF f.topNOrderBy = "distance" /\ HasUserLocation(f)
          THEN TopSortedByDistance(filtered)
          ELSE IF f.topNOrderBy = "price" /\ HasFuelFilter(f)
          THEN TopSortedByPrice(filtered)
          ELSE filtered,
          f.topN[1])

GetTopNStations(given, f) ==
    IF f.topN = <<>> THEN <<>>
    ELSE TopRanked(MapWithinDistance(TopAnnotated(MapFiltered(given, f), f), f), f)

\* ------------------------------------------------------------------------
\* Queries over a held dataset.  The dataset is the result of a parser run
\* over station elements of one meridian; the filters vary every field the
\* two functions read.
\* ------------------------------------------------------------------------
MaxQueryStations == 3

PrixOf(nom, valeur) ==
    [tag |-> "prix", text |-> <<>>, attrs |-> [nom |-> nom, valeur |-> valeur]]

Located(id, latitude, children) ==
    Pdv([id |-> id, latitude |-> latitude, longitude |-> <<"2", "0", "0", "0", "0", "0">>],
        <<>>, children, "no")

\* a: 48.0 N, G at 1.75 and S at 1.60;  b: 48.1 N, G at 1.70;
\* c: 48.2 N, G at 1.70;  d: 48.1 N, S at 1.50 only;
\* e: no coordinates, G at 1.00;  f: 48.1 N and no longitude, G at 1.70
QueryElements ==
    { Located(<<"a">>, <<"4", "8", "0", "0", "0", "0", "0">>,
              <<PrixOf(<<"G">>, <<"1", ".", "7", "5">>), PrixOf(<<"S">>, <<"1", ".", "6">>)>>),
      Located(<<"b">>, <<"4", "8", "1", "0", "0", "0", "0">>,
              <<PrixOf(<<"G">>, <<"1", ".", "7">>)>>),
      Located(<<"c">>, <<"4", "8", "2", "0", "0", "0", "0">>,
              <<PrixOf(<<"G">>, <<"1", ".", "7">>)>>),
      Located(<<"d">>, <<"4", "8", "1", "0", "0", "0", "0">>,
              <<PrixOf(<<"S">>, <<"1", ".", "5">>)>>),
      Pdv([id |-> <<"e">>], SomeCity, <<PrixOf(<<"G">>, <<"1">>)>>, "no"),
      Pdv([id |-> <<"f">>, latitude |-> <<"4", "8", "1", "0", "0", "0", "0">>], <<>>,
          <<PrixOf(<<"G">>, <<"1", ".", "7">>)>>, "no") }

\* the datasets parseXMLData produces from at most MaxQueryStations of them
QueryDatasets ==
    { ParseFrom("primary", elements, 0, ParseStart).stations :
        elements \in UNION {[1..n -> QueryElements] : n \in 0..MaxQueryStations} }

\* topN with its order, or no topN and a maxStations
RankingChoices ==
    { [topN |-> <<n>>, topNOrderBy |-> o, maxStations |-> <<>>] :
        n \in 1..2, o \in {"distance", "price"} }
    \cup { [topN |-> <<>>, topNOrderBy |-> "distance", maxStations |-> m] :
             m \in {<<>>, <<1>>} }

\* no location, a latitude alone, the position of station a
LocationChoices ==
    { [userLatitude |-> <<>>, userLongitude |-> <<>>],
      [userLatitude |-> <<Decimal(48, 0)>>, userLongitude |-> <<>>],
      [userLatitude |-> <<Decimal(48, 0)>>, userLongitude |-> <<Decimal(2, 0)>>] }

\* the maximum price is the price of G at b and c; the maximum distance is
\* the distance from a to b and d
QueryFilters ==
    { [fuelType      |-> fuelType,
       maxPrice      |-> maxPrice,
       maxDistance   |-> maxDistance,
       userLatitude  |-> location.userLatitude,
       userLongitude |-> location.userLongitude,
       topN          |-> ranking.topN,
       topNOrderBy   |-> ranking.topNOrderBy,
       maxStations   |-> ranking.maxStations] :
        fuelType \in {<<>>, AllFuels, <<"G">>},
        maxPrice \in {<<>>, <<Decimal(17, 1)>>},
        maxDistance \in {<<>>, <<Decimal(111195, 4)>>},
        location \in LocationChoices,
        ranking \in RankingChoices }

InputSortedInPlace(given, f) ==
    IF HasUserLocation(f) \/ ~HasFuelFilter(f) THEN given
    ELSE SortedByKeys(given,
             [k \in 1..Len(given) |-> OrInfinity(FuelPriceOf(given[k].fuels, f.fuelType))])

\* the caller's array after a call: stations.filter and .map build new
\* arrays and { ...station } new objects; sort and slice act on those
InputAfterCall(given, f) == given

QueryInit ==
    /\ mode = "none"
    /\ doc = <<>>
    /\ usedIds = {}
    /\ pStations = <<>>
    /\ pSrc = <<>>
    /\ ppc = "returned"
    /\ feedPrice = <<>>
    /\ feedDoc = <<>>
    /\ stations \in QueryDatasets
    /\ isLoading = FALSE
    /\ error = <<>>
    /\ mounted = TRUE
    /\ calls = <<>>
    /\ scenario = "query"
    /\ tableFilter = DefaultFilter
    /\ QueryIdle
    /\ RepairIdle

QueryFrame ==
    /\ UNCHANGED parseVars
    /\ UNCHANGED <<isLoading, error, mounted, calls, scenario, clock, tableFilter>>

\* filterStationsForMap(stations, filters)
CallFilterStationsForMap(f) ==
    /\ scenario = "query"
    /\ called = "none"
    /\ filters' = <<f>>
    /\ called' = "filterStationsForMap"
    /\ result' = FilterStationsForMap(stations, f)
    /\ stations' = InputAfterCall(stations, f)
    /\ QueryFrame

\* getTopNStations(stations, filters)
CallGetTopNStations(f) ==
    /\ scenario = "query"
    /\ called = "none"
    /\ filters' = <<f>>
    /\ called' = "getTopNStations"
    /\ result' = GetTopNStations(stations, f)
    /\ stations' = InputAfterCall(stations, f)
    /\ QueryFrame

QueryNext ==
    \/ \E f \in QueryFilters : CallFilterStationsForMap(f)
    \/ \E f \in QueryFilters : CallGetTopNStations(f)

QuerySpec == QueryInit /\ [][QueryNext]_vars

\* ------------------------------------------------------------------------
\* Properties of the query functions
\* ------------------------------------------------------------------------
Queried == called \in {"filterStationsForMap", "getTopNStations"}

\* the Top-N branch with a criterion that ranks: distance with a reference
\* point, or price with a specific fuel
RankingApplies(f) ==
    /\ f.topN # <<>>
    /\ \/ f.topNOrderBy = "distance" /\ HasUserLocation(f)
       \/ f.topNOrderBy = "price" /\ HasFuelFilter(f)

\* the ranking key of a station: its distance from the reference point, or
\* the price of the selected fuel; Infinity when it has none
RankingKey(station, f) ==
    IF f.topNOrderBy = "distance" /\ HasUserLocation(f)
    THEN FiniteKey(DistanceFromUser(station, f))
    ELSE OrInfinity(FuelPriceOf(station.fuels, f.fuelType))

\* the positions of the held stations that pass every filter predicate
FilteredPositions(f) ==
    { k \in 1..Len(stations) :
        /\ PassesFilters(stations[k], f)
        /\ AppliesMaxDistance(f) =>
               NumLeq(DistanceFromUser(stations[k], f), f.maxDistance[1]) }

\* the position in the held dataset of the i-th returned station
PositionOf(i) == CHOOSE k \in 1..Len(stations) : stations[k].id = result[i].id

\* station p comes before station q: a smaller key, or an equal key and an
\* earlier position in the input
RankedBefore(p, q, f) ==
    \/ KeyLess(RankingKey(stations[p], f), RankingKey(stations[q], f))
    \/ /\ ~KeyLess(RankingKey(stations[q], f), RankingKey(stations[p], f))
       /\ p < q

ReturnedPositions == { PositionOf(i) : i \in 1..Len(result) }

\* C13: a Top-N ranked result is the filtered stations in ascending order of
\* the ranking key, equal keys in input order, cut to the first n.
C13_TopNIsSortedPrefix ==
    (Queried /\ RankingApplies(filters[1])) =>
        /\ \A i \in 1..Len(result) : \E k \in 1..Len(stations) : stations[k].id = result[i].id
        /\ ReturnedPositions \subseteq FilteredPositions(filters[1])
        /\ Len(result) = IF filters[1].topN[1] < Cardinality(FilteredPositions(filters[1]))
                         THEN filters[1].topN[1]
                         ELSE Cardinality(FilteredPositions(filters[1]))
        /\ \A i, j \in 1..Len(result) :
               i < j => RankedBefore(PositionOf(i), PositionOf(j), filters[1])
        /\ \A i \in 1..Len(result) :
               \A k \in FilteredPositions(filters[1]) \ ReturnedPositions :
                   RankedBefore(PositionOf(i), k, filters[1])

\* Top-N by price with no specific fuel selected
RanksAllByPrice(f) ==
    f.topN # <<>> /\ f.topNOrderBy = "price" /\ f.fuelType = AllFuels

\* C14: a Top-N by price with fuel type 'all' is in ascending order of each
\* station's cheapest fuel price, and no station left out is cheaper than
\* one returned.
C14_AllFuelsRankedByCheapest ==
    (Queried /\ RanksAllByPrice(filters[1])) =>
        /\ \A i, j \in 1..Len(result) :
               i < j => ~KeyLess(OrInfinity(CheapestPrice(result[j].fuels)),
                                 OrInfinity(CheapestPrice(result[i].fuels)))
        /\ \A i \in 1..Len(result) :
               \A k \in FilteredPositions(filters[1]) \ ReturnedPositions :
                   ~KeyLess(OrInfinity(CheapestPrice(stations[k].fuels)),
                            OrInfinity(CheapestPrice(result[i].fuels)))

\* the number of stations a call returns at most, if it cuts its result
ReachedLimit(f) ==
    \/ f.topN # <<>> /\ Len(result) = f.topN[1]
    \/ f.topN = <<>> /\ called = "getTopNStations"
    \/ /\ f.topN = <<>> /\ called = "filterStationsForMap"
       /\ f.maxStations # <<>> /\ Len(result) = f.maxStations[1]

\* the held stations that have coordinates, sell the selected fuel at
\* exactly the maximum price and are within the maximum distance
AtMaxPricePositions(f) ==
    { k \in 1..Len(stations) :
        /\ ~Falsy(stations[k].latitude) /\ ~Falsy(stations[k].longitude)
        /\ FuelPriceOf(stations[k].fuels, f.fuelType) = f.maxPrice
        /\ AppliesMaxDistance(f) =>
               NumLeq(DistanceFromUser(stations[k], f), f.maxDistance[1]) }

\* C15: with a specific fuel type and a maximum price, no returned station
\* lacks that fuel or sells it above the maximum; a station selling it at
\* exactly the maximum is returned unless the result was cut before it.
C15_MaxPricePredicate ==
    (Queried /\ HasFuelFilter(filters[1]) /\ filters[1].maxPrice # <<>>) =>
        /\ \A i \in 1..Len(result) :
               /\ \E n \in 1..Len(result[i].fuels) :
                      result[i].fuels[n].name = filters[1].fuelType
               /\ \A n \in 1..Len(result[i].fuels) :
                      result[i].fuels[n].name = filters[1].fuelType =>
                          NumLeq(result[i].fuels[n].price, filters[1].maxPrice[1])
        /\ \A k \in AtMaxPricePositions(filters[1]) :
               k \in ReturnedPositions \/ ReachedLimit(filters[1])

\* a call with fuel G and a maximum price returned a station selling G at
\* exactly that price and left out one selling it above and one not selling it
C15_Witness ==
    /\ Queried /\ HasFuelFilter(filters[1]) /\ filters[1].maxPrice # <<>>
    /\ \E i \in 1..Len(result) :
           FuelPriceOf(result[i].fuels, filters[1].fuelType) = filters[1].maxPrice
    /\ \E k \in 1..Len(stations) :
           /\ ~Falsy(stations[k].latitude)
           /\ FuelPriceOf(stations[k].fuels, filters[1].fuelType) # <<>>
           /\ NumLess(filters[1].maxPrice[1],
                      FuelPriceOf(stations[k].fuels, filters[1].fuelType)[1])
           /\ k \notin ReturnedPositions
    /\ \E k \in 1..Len(stations) :
           /\ ~Falsy(stations[k].latitude)
           /\ FuelPriceOf(stations[k].fuels, filters[1].fuelType) = <<>>
           /\ k \notin ReturnedPositions

\* what the function called returns for the held stations under f
ReturnedFor(f) ==
    IF called = "getTopNStations" THEN GetTopNStations(stations, f)
    ELSE FilterStationsForMap(stations, f)

\* C16: with a maximum distance and a reference point, every returned
\* station is within the maximum distance of that point; with no reference
\* point the maximum distance excludes no station.
C16_MaxDistanceNeedsReference ==
    (Queried /\ filters[1].maxDistance # <<>>) =>
        IF HasUserLocation(filters[1])
        THEN \A i \in 1..Len(result) :
                 /\ result[i].distance = <<DistanceFromUser(result[i], filters[1])>>
                 /\ NumLeq(DistanceFromUser(result[i], filters[1]), filters[1].maxDistance[1])
        ELSE result = ReturnedFor([filters[1] EXCEPT !.maxDistance = <<>>])

\* a call with a reference point returned a station at exactly the maximum
\* distance and left out a farther one that passes the other predicates
C16_Witness ==
    /\ Queried /\ filters[1].maxDistance # <<>> /\ HasUserLocation(filters[1])
    /\ \E i \in 1..Len(result) :
           DistanceFromUser(result[i], filters[1]) = filters[1].maxDistance[1]
    /\ \E k \in 1..Len(stations) :
           /\ PassesFilters(stations[k], filters[1])
           /\ NumLess(filters[1].maxDistance[1], DistanceFromUser(stations[k], filters[1]))
           /\ k \notin ReturnedPositions

\* no held station carries an annotation of the query functions
InputUnannotated ==
    \A k \in 1..Len(stations) :
        DOMAIN stations[k] \cap {"distance", "selectedFuelPrice"} = {}

LowerChar(c) ==
    CASE c = "L" -> "l" [] c = "M" -> "m" [] c = "J" -> "j" [] c = "V" -> "v"
      [] c = "S" -> "s" [] c = "D" -> "d" [] c = "T" -> "t" [] c = "W" -> "w"
      [] c = "F" -> "f" [] OTHER -> c

\* str.toLowerCase() over the letters of the day names
ToLowerCase(text) == [k \in 1..Len(text) |-> LowerChar(text[k])]

\* the keys of dayMapping
DayMappingNames ==
    { <<"l", "u", "n", "d", "i">>,
      <<"m", "a", "r", "d", "i">>,
      <<"m", "e", "r", "c", "r", "e", "d", "i">>,
      <<"j", "e", "u", "d", "i">>,
      <<"v", "e", "n", "d", "r", "e", "d", "i">>,
      <<"s", "a", "m", "e", "d", "i">>,
      <<"d", "i", "m", "a", "n", "c", "h", "e">>,
      <<"m", "o", "n", "d", "a", "y">>,
      <<"t", "u", "e", "s", "d", "a", "y">>,
      <<"w", "e", "d", "n", "e", "s", "d", "a", "y">>,
      <<"t", "h", "u", "r", "s", "d", "a", "y">>,
      <<"f", "r", "i", "d", "a", "y">>,
      <<"s", "a", "t", "u", "r", "d", "a", "y">>,
      <<"s", "u", "n", "d", "a", "y">>,
      <<"l", "u", "n">>,
      <<"m", "a", "r">>,
      <<"m", "e", "r">>,
      <<"j", "e", "u">>,
      <<"v", "e", "n">>,
      <<"s", "a", "m">>,
      <<"d", "i", "m">> }

\* dayMapping[name]
DayKey(name) ==
    CASE name = <<"l", "u", "n", "d", "i">> -> "monday"
      [] name = <<"m", "a", "r", "d", "i">> -> "tuesday"
      [] name = <<"m", "e", "r", "c", "r", "e", "d", "i">> -> "wednesday"
      [] name = <<"j", "e", "u", "d", "i">> -> "thursday"
      [] name = <<"v", "e", "n", "d", "r", "e", "d", "i">> -> "friday"
      [] name = <<"s", "a", "m", "e", "d", "i">> -> "saturday"
      [] name = <<"d", "i", "m", "a", "n", "c", "h", "e">> -> "sunday"
      [] name = <<"m", "o", "n", "d", "a", "y">> -> "monday"
      [] name = <<"t", "u", "e", "s", "d", "a", "y">> -> "tuesday"
      [] name = <<"w", "e", "d", "n", "e", "s", "d", "a", "y">> -> "wednesday"
      [] name = <<"t", "h", "u", "r", "s", "d", "a", "y">> -> "thursday"
      [] name = <<"f", "r", "i", "d", "a", "y">> -> "friday"
      [] name = <<"s", "a", "t", "u", "r", "d", "a", "y">> -> "saturday"
      [] name = <<"s", "u", "n", "d", "a", "y">> -> "sunday"
      [] name = <<"l", "u", "n">> -> "monday"
      [] name = <<"m", "a", "r">> -> "tuesday"
      [] name = <<"m", "e", "r">> -> "wednesday"
      [] name = <<"j", "e", "u">> -> "thursday"
      [] name = <<"v", "e", "n">> -> "friday"
      [] name = <<"s", "a", "m">> -> "saturday"
      [] name = <<"d", "i", "m">> -> "sunday"

\* dayElement.getAttribute('nom') || ... || dayElement.tagName.toLowerCase()
DayName(dayElement) ==
    IF dayElement.nom # <<>> THEN dayElement.nom ELSE <<"j", "o", "u", "r">>

\* getAttribute('ferme') === '1' || ... || textContent includes 'fermé'
IsClosed(dayElement) == IsOne(dayElement.ferme) \/ dayElement.saysClosed

\* Array.from(horaireElements).map(...).filter(range => range.open && range.close)
TimeRanges(horaires) ==
    SelectSeq([k \in 1..Len(horaires) |->
                  [open |-> horaires[k].ouverture, close |-> horaires[k].fermeture]],
              LAMBDA range : range.open # <<>> /\ range.close # <<>>)

\* the DaySchedule built for one day element
DayScheduleOf(dayElement) ==
    [closed |-> IsClosed(dayElement),
     hours  |-> IF IsClosed(dayElement) THEN <<>> ELSE TimeRanges(dayElement.horaires)]

\* openingHours[dayKey] = daySchedule
WithDay(openingHours, dayKey, daySchedule) ==
    [d \in DOMAIN openingHours \cup {dayKey} |->
        IF d = dayKey THEN daySchedule ELSE openingHours[d]]

RECURSIVE ParseDays(_, _)
\* dayElements.forEach from the openingHours built so far
ParseDays(dayElements, openingHours) ==
    IF dayElements = <<>> THEN openingHours
    ELSE ParseDays(Tail(dayElements),
             IF ToLowerCase(DayName(Head(dayElements))) \in DayMappingNames
             THEN WithDay(openingHours,
                          DayKey(ToLowerCase(DayName(Head(dayElements)))),
                          DayScheduleOf(Head(dayElements)))
             ELSE openingHours)

NoDays == [d \in {} |-> [closed |-> FALSE, hours |-> <<>>]]

ParseOpeningHours(dayElements) == ParseDays(dayElements, NoDays)

WithOpeningHoursIfAny(station, dayElements) ==
    IF ParseOpeningHours(dayElements) = NoDays THEN station
    ELSE [field \in DOMAIN station \cup {"openingHours"} |->
            IF field = "openingHours" THEN ParseOpeningHours(dayElements)
            ELSE station[field]]

\* station.openingHours = parseOpeningHours(horairesElement), for a station
\* element that has an opening-hours container
WithOpeningHours(station, dayElements) ==
    [field \in DOMAIN station \cup {"openingHours"} |->
        IF field = "openingHours" THEN ParseOpeningHours(dayElements)
        ELSE station[field]]

\* ------------------------------------------------------------------------
\* mapUtils: isStationOpen.  now is [day, hours, minutes]: the weekday of
\* toLocaleDateString('en', { weekday: 'long' }).toLowerCase(), getHours()
\* and getMinutes().
\* ------------------------------------------------------------------------
RECURSIVE ReplaceFirstColon(_)
\* str.replace(':', ''): a string pattern replaces the first match only
ReplaceFirstColon(text) ==
    IF text = <<>> THEN <<>>
    ELSE IF Head(text) = ":" THEN Tail(text)
    ELSE <<Head(text)>> \o ReplaceFirstColon(Tail(text))

\* parseInt: the leading run of digits, NaN (<<>>) when there is none.
\* (Signs and leading blanks do not occur in the texts of the model.)
ParseInt(text) ==
    IF DigitRun(text, 1) = 0 THEN <<>>
    ELSE <<DigitsValue(text, 1, DigitRun(text, 1))>>

\* now.getHours() * 100 + now.getMinutes()
CurrentTime(now) == now.hours * 100 + now.minutes

WithinSameDayOnly(currentTime, openTime, closeTime) ==
    /\ openTime # <<>> /\ closeTime # <<>>
    /\ currentTime >= openTime[1] /\ currentTime <= closeTime[1]

\* the callback of daySchedule.hours.some over the parsed times; a
\* comparison with NaN is false
Within(currentTime, openTime, closeTime) ==
    /\ openTime # <<>> /\ closeTime # <<>>
    /\ IF closeTime[1] < openTime[1]
       THEN currentTime >= openTime[1] \/ currentTime <= closeTime[1]
       ELSE currentTime >= openTime[1] /\ currentTime <= closeTime[1]

RangeMatches(timeRange, now) ==
    Within(CurrentTime(now),
           ParseInt(ReplaceFirstColon(timeRange.open)),
           ParseInt(ReplaceFirstColon(timeRange.close)))

OpenWithoutHoursNever(daySchedule) == FALSE

\* if (!daySchedule.hours || daySchedule.hours.length === 0) return true
OpenWithoutHours(daySchedule) == TRUE

OpenWithoutDataNever(station) == FALSE

\* if (!station.openingHours) return true
OpenWithoutData(station) == TRUE

IsStationOpen(station, now) ==
    IF "openingHours" \notin DOMAIN station THEN OpenWithoutData(station)
    ELSE IF now.day \notin DOMAIN station.openingHours THEN FALSE
    ELSE IF station.openingHours[now.day].closed THEN FALSE
    ELSE IF station.openingHours[now.day].hours = <<>>
    THEN OpenWithoutHours(station.openingHours[now.day])
    ELSE \E k \in 1..Len(station.openingHours[now.day].hours) :
             RangeMatches(station.openingHours[now.day].hours[k], now)

\* ------------------------------------------------------------------------
\* One call of isStationOpen on a station of the feed
\* ------------------------------------------------------------------------
MaxDayElements == 2

MaxRanges == 2

Weekdays ==
    {"monday", "tuesday", "wednesday", "thursday", "friday", "saturday", "sunday"}

\* an overnight range, a range within one day, an incomplete pair
HoraireElements ==
    { [ouverture |-> <<"2", "2", ":", "0", "0">>, fermeture |-> <<"0", "6", ":", "0", "0">>],
      [ouverture |-> <<"0", "8", ":", "0", "0">>, fermeture |-> <<"1", "2", ":", "0", "0">>],
      [ouverture |-> <<>>, fermeture |-> <<"1", "2", ":", "0", "0">>] }

\* a day with an unknown name, 'Lundi' and 'mar'; closed, or open with at
\* most MaxRanges time-range elements
DayElements ==
    { [nom |-> nom, ferme |-> <<"1">>, saysClosed |-> FALSE, horaires |-> <<>>] :
        nom \in {<<>>, <<"L", "u", "n", "d", "i">>, <<"m", "a", "r">>} }
    \cup { [nom |-> nom, ferme |-> <<>>, saysClosed |-> FALSE, horaires |-> horaires] :
             nom \in {<<>>, <<"L", "u", "n", "d", "i">>, <<"m", "a", "r">>},
             horaires \in UNION {[1..n -> HoraireElements] : n \in 0..MaxRanges} }

\* the opening-hours container of a station element: none, or one with at
\* most MaxDayElements day elements
HorairesContainers ==
    {<<>>} \cup {<<dayElements>> :
                    dayElements \in UNION {[1..n -> DayElements] : n \in 0..MaxDayElements}}

\* station element a of the feed with that container
OpenElement(container) ==
    [field \in {"attrs", "ville", "adresse", "children", "throws", "horaires"} |->
        IF field = "horaires" THEN container
        ELSE (CHOOSE e \in QueryElements : e.attrs["id"] = <<"a">>)[field]]

\* the station parseXMLData builds from such an element
OpenStation(pdv) ==
    IF pdv.horaires = <<>>
    THEN PrimaryStation(pdv, PrimaryStationId(pdv, 0))
    ELSE WithOpeningHours(PrimaryStation(pdv, PrimaryStationId(pdv, 0)), pdv.horaires[1])

\* the moments of the clock: every weekday at times around the bounds of
\* the ranges
ClockTimes ==
    { [hours |-> 0, minutes |-> 0], [hours |-> 6, minutes |-> 0],
      [hours |-> 6, minutes |-> 1], [hours |-> 7, minutes |-> 59],
      [hours |-> 8, minutes |-> 0], [hours |-> 10, minutes |-> 0],
      [hours |-> 12, minutes |-> 0], [hours |-> 12, minutes |-> 1],
      [hours |-> 21, minutes |-> 59], [hours |-> 22, minutes |-> 0],
      [hours |-> 23, minutes |-> 0] }

OpenInit ==
    /\ mode = "none"
    /\ \E container \in HorairesContainers :
           /\ doc = <<OpenElement(container)>>
           /\ stations = <<OpenStation(OpenElement(container))>>
    /\ usedIds = {}
    /\ pStations = <<>>
    /\ pSrc = <<>>
    /\ ppc = "returned"
    /\ feedPrice = <<>>
    /\ feedDoc = <<>>
    /\ isLoading = FALSE
    /\ error = <<>>
    /\ mounted = TRUE
    /\ calls = <<>>
    /\ scenario = "open"
    /\ tableFilter = DefaultFilter
    /\ QueryIdle
    /\ RepairIdle

\* isStationOpen(station) at the moment now
CallIsStationOpen(day, time) ==
    /\ scenario = "open"
    /\ called = "none"
    /\ clock' = <<[day |-> day, hours |-> time.hours, minutes |-> time.minutes]>>
    /\ called' = "isStationOpen"
    /\ result' = <<IsStationOpen(stations[1],
                      [day |-> day, hours |-> time.hours, minutes |-> time.minutes])>>
    /\ UNCHANGED parseVars
    /\ UNCHANGED <<stations, isLoading, error, mounted, calls, scenario, filters, tableFilter>>

OpenNext == \E day \in Weekdays : \E time \in ClockTimes : CallIsStationOpen(day, time)

OpenSpec == OpenInit /\ [][OpenNext]_vars

\* ------------------------------------------------------------------------
\* Properties of isStationOpen
\* ------------------------------------------------------------------------
OpenAsked == called = "isStationOpen"

HasOpeningHours == "openingHours" \in DOMAIN stations[1]

\* today's entry of the station asked about, when it has one
HasToday == HasOpeningHours /\ clock[1].day \in DOMAIN stations[1].openingHours

Today == stations[1].openingHours[clock[1].day]

\* the position of the colon of an HH:MM text
ColonOf(text) == CHOOSE k \in 1..Len(text) : text[k] = ":"

\* the time of day an HH:MM text denotes
TimeOfDay(text) ==
    [hours   |-> DigitsValue(text, 1, ColonOf(text) - 1),
     minutes |-> DigitsValue(text, ColonOf(text) + 1, Len(text) - ColonOf(text))]

\* time a is not after time b
NotAfter(a, b) == a.hours < b.hours \/ (a.hours = b.hours /\ a.minutes <= b.minutes)

\* a range matches the moment: within open..close, or for an overnight
\* range (close before open) from open on or up to close
Matches(open, close, moment) ==
    IF ~NotAfter(open, close)
    THEN NotAfter(open, moment) \/ NotAfter(moment, close)
    ELSE NotAfter(open, moment) /\ NotAfter(moment, close)

Overnight == [open  |-> <<"2", "2", ":", "0", "0">>, close |-> <<"0", "6", ":", "0", "0">>]

\* C17: when today's schedule lists time ranges, the station is open iff
\* some range matches the current time; an overnight range matches from its
\* opening on or up to its closing: 22:00-06:00 is open at 23:00 and closed
\* at 10:00.
C17_OpenIffSomeRangeMatches ==
    (OpenAsked /\ HasToday /\ ~Today.closed /\ Today.hours # <<>>) =>
        /\ result[1] <=>
               \E k \in 1..Len(Today.hours) :
                   Matches(TimeOfDay(Today.hours[k].open), TimeOfDay(Today.hours[k].close),
                           clock[1])
        /\ (Today.hours = <<Overnight>> /\ clock[1].hours = 23) => result[1]
        /\ (Today.hours = <<Overnight>> /\ clock[1].hours = 10) => ~result[1]

\* the station whose only range today is 22:00-06:00 was found open at 23:00
C17_Witness ==
    /\ OpenAsked /\ HasToday /\ ~Today.closed
    /\ Today.hours = <<Overnight>>
    /\ clock[1].hours = 23
    /\ result = <<TRUE>>

\* C18: with opening-hours data, the station is closed when today has no
\* entry or is marked closed, and open when today's entry is not marked
\* closed and lists no time range.
C18_AbsentOrClosedDay ==
    (OpenAsked /\ HasOpeningHours) =>
        /\ ~HasToday => result = <<FALSE>>
        /\ (HasToday /\ Today.closed) => result = <<FALSE>>
        /\ (HasToday /\ ~Today.closed /\ Today.hours = <<>>) => result = <<TRUE>>

\* a station with an entry for today that is not closed and has no range
\* was found open, its schedule holding a closed day as well
C18_Witness ==
    /\ OpenAsked /\ HasToday
    /\ ~Today.closed /\ Today.hours = <<>>
    /\ result = <<TRUE>>
    /\ \E d \in DOMAIN stations[1].openingHours : stations[1].openingHours[d].closed

\* C19: a station without opening-hours data is open at every time of every
\* day.
C19_NoDataMeansOpen ==
    (OpenAsked /\ ~HasOpeningHours) => result = <<TRUE>>

\* a station without opening-hours data was found open on a Sunday at 00:00
C19_Witness ==
    /\ OpenAsked /\ ~HasOpeningHours
    /\ clock[1] = [day |-> "sunday", hours |-> 0, minutes |-> 0]
    /\ result = <<TRUE>>

\* ------------------------------------------------------------------------
\* Further properties of the query functions
\* ------------------------------------------------------------------------
RECURSIVE IdsOf(_)
\* the ids of a list of stations, in order
IdsOf(list) == IF list = <<>> THEN <<>> ELSE <<Head(list).id>> \o IdsOf(Tail(list))

\* C26: with Top-N enabled, filterStationsForMap and getTopNStations return
\* the same stations in the same order for the same list and filters, a
\* station at distance 0 from the reference point included.
C26_MapAndTableAgree ==
    (Queried /\ filters[1].topN # <<>>) =>
        IdsOf(FilterStationsForMap(stations, filters[1]))
            = IdsOf(GetTopNStations(stations, filters[1]))

\* C29: every station either function returns has a latitude and a
\* longitude, both non-zero, whatever the filters.
C29_ReturnedHaveCoordinates ==
    Queried =>
        \A i \in 1..Len(result) :
            /\ result[i].latitude # <<>> /\ Truthy(result[i].latitude[1])
            /\ result[i].longitude # <<>> /\ Truthy(result[i].longitude[1])

\* a call returned some station and none of the held stations that lack
\* the longitude alone or both coordinates
C29_Witness ==
    /\ Queried
    /\ Len(result) >= 1
    /\ \E k \in 1..Len(stations) :
           stations[k].latitude # <<>> /\ stations[k].longitude = <<>>
    /\ \E k \in 1..Len(stations) : stations[k].latitude = <<>>
    /\ \A i \in 1..Len(result) : result[i].longitude # <<>>

\* ------------------------------------------------------------------------
\* The empty opening-hours map
\* ------------------------------------------------------------------------
\* no day element of the container has a name dayMapping knows
NoDayRecognized(dayElements) ==
    \A k \in 1..Len(dayElements) :
        ToLowerCase(DayName(dayElements[k])) \notin DayMappingNames

\* C28: a station whose opening-hours container holds no recognized day
\* entry gets an empty opening-hours map, and is reported closed at every
\* time of every day.
C28_EmptyMapMeansClosed ==
    (OpenAsked /\ doc[1].horaires # <<>> /\ NoDayRecognized(doc[1].horaires[1])) =>
        /\ HasOpeningHours
        /\ DOMAIN stations[1].openingHours = {}
        /\ result = <<FALSE>>

\* a station whose container holds one unrecognized day with the range
\* 08:00-12:00 was reported closed at 10:00
C28_Witness ==
    /\ OpenAsked
    /\ doc[1].horaires # <<>>
    /\ Len(doc[1].horaires[1]) = 1
    /\ NoDayRecognized(doc[1].horaires[1])
    /\ Len(doc[1].horaires[1][1].horaires) = 1
    /\ doc[1].horaires[1][1].horaires[1].ouverture = <<"0", "8", ":", "0", "0">>
    /\ clock[1].hours = 10
    /\ result = <<FALSE>>

\* ------------------------------------------------------------------------
\* parseXMLData: the services of a station element.  The children of the
\* element are nodes [tag, attrs, text, children], text the node's own text
\* and children its child elements (leaves of the same shape).
\* ------------------------------------------------------------------------
serviceSelectors == <<"service", "services", "equipement", "equipment">>

RECURSIVE TrimStart(_)
TrimStart(text) ==
    IF text # <<>> /\ Head(text) = " " THEN TrimStart(Tail(text)) ELSE text

RECURSIVE TrimEnd(_)
TrimEnd(text) ==
    IF text # <<>> /\ text[Len(text)] = " "
    THEN TrimEnd(SubSeq(text, 1, Len(text) - 1)) ELSE text

\* str.trim()
Trim(text) == TrimEnd(TrimStart(text))

RECURSIVE TextsOf(_)
\* the texts of a list of nodes, concatenated in document order
TextsOf(nodes) ==
    IF nodes = <<>> THEN <<>> ELSE Head(nodes).text \o TextsOf(Tail(nodes))

\* node.textContent: its own text and that of its descendants
TextContent(node) == node.text \o TextsOf(node.children)

RECURSIVE Descendants(_)
\* the elements below a station element, in document order
Descendants(nodes) ==
    IF nodes = <<>> THEN <<>>
    ELSE <<Head(nodes)>> \o Head(nodes).children \o Descendants(Tail(nodes))

\* pdv.querySelectorAll(selector)
QuerySelectorAll(nodes, selector) ==
    SelectSeq(Descendants(nodes), LAMBDA node : node.tag = selector)

\* service.textContent?.trim() || nom || name || type
SelectedServiceName(service) ==
    IF Trim(TextContent(service)) # <<>> THEN Trim(TextContent(service))
    ELSE FirstOf(service.attrs, <<"nom", "name", "type">>)

\* child.textContent?.trim() || nom || name
ChildServiceName(child) ==
    IF Trim(TextContent(child)) # <<>> THEN Trim(TextContent(child))
    ELSE FirstOf(child.attrs, <<"nom", "name">>)

RECURSIVE PushSelected(_, _)
\* serviceElements.forEach: every non-empty name is pushed
PushSelected(services, elements) ==
    IF elements = <<>> THEN services
    ELSE PushSelected(IF SelectedServiceName(Head(elements)) # <<>>
                      THEN Append(services, SelectedServiceName(Head(elements)))
                      ELSE services,
                      Tail(elements))

RECURSIVE PushSelectors(_, _, _)
\* for (const selector of serviceSelectors): no break between selectors
PushSelectors(services, nodes, selectors) ==
    IF selectors = <<>> THEN services
    ELSE PushSelectors(PushSelected(services, QuerySelectorAll(nodes, Head(selectors))),
                       nodes, Tail(selectors))

\* child.tagName.toLowerCase().includes('service'), over the tags of the model
TagIncludesService(tag) == tag \in {"service", "services"}

Includes(services, serviceName) == \E k \in 1..Len(services) : services[k] = serviceName

RECURSIVE PushChildren(_, _)
\* Array.from(pdv.children).forEach: a name is pushed unless already included
PushChildren(services, children) ==
    IF children = <<>> THEN services
    ELSE PushChildren(IF /\ TagIncludesService(Head(children).tag)
                         /\ ChildServiceName(Head(children)) # <<>>
                         /\ ~Includes(services, ChildServiceName(Head(children)))
                      THEN Append(services, ChildServiceName(Head(children)))
                      ELSE services,
                      Tail(children))

\* station.services after both passes
ParseServices(nodes) ==
    PushChildren(PushSelectors(<<>>, nodes, serviceSelectors), nodes)

MaxServiceNodes == 2

ServiceLeaf(tag, text, nom) ==
    [tag |-> tag, text |-> text, children |-> <<>>,
     attrs |-> IF nom = <<>> THEN NoAttrs ELSE [nom |-> nom]]

\* service elements with a text, named by attribute, with a blank text;
\* an equipement element; an element of another kind
ServiceLeaves ==
    { ServiceLeaf(tag, text, nom) :
        tag \in {"service", "equipement", "x"},
        text \in {<<>>, <<"W">>, <<" ", "L">>},
        nom \in {<<>>, <<"W">>} }

\* a <services> list holding at most MaxServiceNodes <service> elements
ServiceLists ==
    { [tag |-> "services", text |-> <<>>, attrs |-> NoAttrs, children |-> children] :
        children \in UNION {[1..n -> {ServiceLeaf("service", text, <<>>) :
                                         text \in {<<"W">>, <<"L">>}}] :
                               n \in 0..MaxServiceNodes} }

ServiceInit ==
    /\ mode = "primary"
    /\ \E nodes \in UNION {[1..n -> ServiceLeaves \cup ServiceLists] : n \in 0..MaxServiceNodes} :
           doc = <<Pdv([id |-> <<"a">>], SomeCity, nodes, "no")>>
    /\ usedIds = {}
    /\ pStations = <<>>
    /\ pSrc = <<>>
    /\ ppc = "parsing"
    /\ feedPrice = <<>>
    /\ feedDoc = <<>>
    /\ stations = <<>>
    /\ isLoading = FALSE
    /\ error = <<>>
    /\ mounted = FALSE
    /\ calls = <<>>
    /\ scenario = "services"
    /\ tableFilter = DefaultFilter
    /\ QueryIdle
    /\ RepairIdle

\* the two passes over the station element that fill station.services
ExtractServices ==
    /\ scenario = "services"
    /\ called = "none"
    /\ called' = "services"
    /\ result' = ParseServices(doc[1].children)
    /\ UNCHANGED parseVars
    /\ UNCHANGED <<stations, isLoading, error, mounted, calls, scenario, filters, clock, tableFilter>>

ServiceNext == ExtractServices

ServiceSpec == ServiceInit /\ [][ServiceNext]_vars

\* C21: the services list of a station holds no string twice.
C21_ServicesHoldNoDuplicate ==
    called = "services" =>
        \A i, j \in 1..Len(result) : i # j => result[i] # result[j]

\* ------------------------------------------------------------------------
\* Refreshes in flight
\* ------------------------------------------------------------------------
\* the loadData calls that have started and not ended
InFlight == { r \in DOMAIN calls : calls[r].pc = "awaiting" }

\* C25: at most one refresh is in flight at any time, and the loading
\* indicator is true whenever one is.
C25_OneRefreshInFlight ==
    /\ Cardinality(InFlight) <= 1
    /\ InFlight # {} => isLoading

\* ------------------------------------------------------------------------
\* Properties of the fallback parser's station-level fields (ParseSpec)
\* ------------------------------------------------------------------------
\* the station-level fields of a station object
StationLevel(st) ==
    <<st.latitude, st.longitude, st.city, st.postalCode, st.address, st.brand,
      st.lastUpdate, st.automate24h, st.highway, st.freeAccess>>

\* C22: in the fallback parser the station-level fields (id, latitude,
\* longitude, city, postal code, address, brand, last update, flags) are
\* determined by the attributes of the <pdv> opening tag only: the attributes
\* of nested elements, such as the id or maj of a <prix>, never change them.
C22_OpeningTagOnly ==
    mode = "fallback" =>
        \A k \in 1..Len(pStations) :
            LET pdv == doc[pSrc[k]]
                own == [pdv EXCEPT !.children = <<>>]
                st  == pStations[k]
            IN  /\ StationLevel(st) = StationLevel(FallbackStation(own, st.id))
                /\ pSrc[k] = 1 =>
                       st.id = IF Attr(pdv.attrs, "id") # <<>> THEN Attr(pdv.attrs, "id")
                               ELSE SyntheticId(0)

\* ------------------------------------------------------------------------
\* Properties of the table filter across a refresh (Spec)
\* ------------------------------------------------------------------------
\* the filter with every part set
FullFilter == CHOOSE f \in TableFilters : f # DefaultFilter

\* C30: a refresh that succeeds empties the selected services of the table
\* filter and leaves its location, fuels and features as they were; a refresh
\* that fails leaves all four parts as they were.
C30_RefreshKeepsFilterButServices ==
    [][\A r \in DOMAIN calls :
          calls[r].pc = "awaiting" =>
              /\ calls'[r].pc = "succeeded" =>
                     /\ tableFilter'.services = <<>>
                     /\ tableFilter'.location = tableFilter.location
                     /\ tableFilter'.fuels = tableFilter.fuels
                     /\ tableFilter'.features = tableFilter.features
              /\ calls'[r].pc = "failed" => tableFilter' = tableFilter]_vars

\* a refresh succeeded on a filter with every part set: the services are
\* empty and the three other parts are still set
C30_Witness ==
    /\ \E r \in DOMAIN calls : calls[r].pc = "succeeded"
    /\ tableFilter = [FullFilter EXCEPT !.services = <<>>]

\* ------------------------------------------------------------------------
\* parseXMLWithFallback: the scan over a text of many blocks.  The blocks
\* are counted, not built: scan is
\*   [blocks  : the <pdv>...</pdv> blocks stationRegex can match in the text,
\*    pattern : the kinds of the blocks, repeated over the text: "kept" (the
\*              station is pushed), "rejected" (it fails the test of
\*              meaningful data), "raises" (the try body throws),
\*    matched : the blocks stationRegex.exec has returned and the body has
\*              processed,
\*    index   : the variable index,
\*    pushed  : stations.length,
\*    pc      : "scanning" or "returned"]
\* ------------------------------------------------------------------------
MaxPatternLen == 2

BlockKinds == {"kept", "rejected", "raises"}

\* texts with no block, with fewer blocks than the limit, with exactly as
\* many, and with more
BlockCounts == {0, MaxFallbackStations - 1, MaxFallbackStations, MaxFallbackStations + 1}

\* the kind of the k-th block (from 1) of a text whose kinds follow pattern
KindOf(pattern, k) == pattern[((k - 1) % Len(pattern)) + 1]

\* catch (error) { console.warn(...); index++; }
IndexAfterCatchKept(index) == index

IndexAfterCatch(index) == index + 1

CapInit ==
    /\ mode = "fallback"
    /\ doc = <<>>
    /\ usedIds = {}
    /\ pStations = <<>>
    /\ pSrc = <<>>
    /\ ppc = "returned"
    /\ feedPrice = <<>>
    /\ feedDoc = <<>>
    /\ stations = <<>>
    /\ isLoading = FALSE
    /\ error = <<>>
    /\ mounted = FALSE
    /\ calls = <<>>
    /\ scenario = "scan"
    /\ tableFilter = DefaultFilter
    /\ QueryIdle
    /\ fixing = <<>>
    /\ \E n \in BlockCounts :
       \E pattern \in UNION {[1..l -> BlockKinds] : l \in 1..MaxPatternLen} :
           scan = [blocks |-> n, pattern |-> pattern, matched |-> 0, index |-> 0,
                   pushed |-> 0, pc |-> "scanning"]

\* one iteration of while ((match = stationRegex.exec(...)) !== null &&
\* index < 10000): the try body ends with index++, and so does the catch
ScanBlock ==
    /\ scenario = "scan"
    /\ scan.pc = "scanning"
    /\ scan.matched < scan.blocks
    /\ scan.index < MaxFallbackStations
    /\ \E kind \in {KindOf(scan.pattern, scan.matched + 1)} :
           scan' = [scan EXCEPT
                       !.matched = @ + 1,
                       !.index = IF kind = "raises" THEN IndexAfterCatch(@) ELSE @ + 1,
                       !.pushed = IF kind = "kept" THEN @ + 1 ELSE @]
    /\ UNCHANGED <<mode, doc, usedIds, pStations, pSrc, ppc, feedPrice, feedDoc, fixing>>
    /\ UNCHANGED appVars
    /\ UNCHANGED queryVars

\* the loop condition is false: no further match or index at the limit;
\* return stations
ScanReturn ==
    /\ scenario = "scan"
    /\ scan.pc = "scanning"
    /\ ~(scan.matched < scan.blocks /\ scan.index < MaxFallbackStations)
    /\ scan' = [scan EXCEPT !.pc = "returned"]
    /\ UNCHANGED <<mode, doc, usedIds, pStations, pSrc, ppc, feedPrice, feedDoc, fixing>>
    /\ UNCHANGED appVars
    /\ UNCHANGED queryVars

CapNext ==
    \/ ScanBlock
    \/ ScanReturn

\* the loop is synchronous code: once entered it runs until it returns
CapSpec == CapInit /\ [][CapNext]_vars /\ WF_vars(CapNext)

\* C23: the fallback scan terminates on every input; it processes at most
\* 10000 blocks, whether a block is parsed or raises an error, returns at
\* most 10000 stations, and ignores the blocks beyond the limit.
C23_ScanCappedAndTerminates ==
    /\ [](/\ scan.matched <= MaxFallbackStations
          /\ scan.pushed <= MaxFallbackStations
          /\ scan.pc = "returned" =>
                 scan.matched = IF scan.blocks > MaxFallbackStations
                                THEN MaxFallbackStations ELSE scan.blocks)
    /\ <>(scan.pc = "returned")

\* a text of 10001 blocks, every second of which raises, was scanned: 10000
\* blocks were processed, 5000 stations returned, the last block ignored
C23_Witness ==
    /\ scan.pc = "returned"
    /\ scan.blocks = MaxFallbackStations + 1
    /\ scan.pattern = <<"kept", "raises">>
    /\ scan.matched = MaxFallbackStations
    /\ scan.pushed = MaxFallbackStations \div 2

\* ------------------------------------------------------------------------
\* The encodingFixes table of parseXMLData, applied again by
\* parseXMLWithFallback.  A text is a sequence of characters, each written
\* as its code point in four hexadecimal digits.  fixing is
\*   [input    : the text parseXMLData received,
\*    text     : fixedXmlContent,
\*    repaired : the text handed to parseXMLWithFallback, once it is,
\*    entry    : the table entry forEach applies next,
\*    pc       : the function applying its table, or "done"]
\* ------------------------------------------------------------------------
MaxTextLen == 3

Fix(pattern, replacement) == [pattern |-> pattern, replacement |-> replacement]

\* the entries for the quotation marks and the dashes
QuoteFixes ==
    <<
       Fix(<<"00E2", "20AC", "2122">>, <<"0027">>),
       Fix(<<"00E2", "20AC", "0153">>, <<"0022">>),
       Fix(<<"00E2", "20AC">>, <<"0022">>),
       Fix(<<"00E2", "20AC", "0022">>, <<"2013">>),
       Fix(<<"00E2", "20AC", "0022">>, <<"2014">>)
    >>

\* the entries for the accented letters, then those for the ideographs
AccentFixes ==
    <<
       Fix(<<"00C3", "00A9">>, <<"00E9">>),
       Fix(<<"00C3", "00A8">>, <<"00E8">>),
       Fix(<<"00C3", "00AA">>, <<"00EA">>),
       Fix(<<"00C3", "00AF">>, <<"00EF">>),
       Fix(<<"00C3", "00AE">>, <<"00EE">>),
       Fix(<<"00C3", "00B4">>, <<"00F4">>),
       Fix(<<"00C3", "00B9">>, <<"00F9">>),
       Fix(<<"00C3", "00BB">>, <<"00FB">>),
       Fix(<<"00C3", "00BC">>, <<"00FC">>),
       Fix(<<"00C3", "0020">>, <<"00E0">>),
       Fix(<<"00C3", "00A2">>, <<"00E2">>),
       Fix(<<"00C3", "00A7">>, <<"00E7">>),
       Fix(<<"00C3", "2030">>, <<"00C9">>),
       Fix(<<"00C3", "20AC">>, <<"00C0">>),
       Fix(<<"00C3", "2021">>, <<"00C7">>),
       Fix(<<"98E8">>, <<"00E9">>),
       Fix(<<"951A">>, <<"00E0">>),
       Fix(<<"8C65">>, <<"00E8">>),
       Fix(<<"8822">>, <<"00E7">>),
       Fix(<<"94C6">>, <<"00EE">>),
       Fix(<<"4E48">>, <<"00F4">>),
       Fix(<<"9709">>, <<"00F9">>),
       Fix(<<"8D42">>, <<"00FB">>),
       Fix(<<"9732">>, <<"00EF">>),
       Fix(<<"813A">>, <<"00FC">>),
       Fix(<<"8305">>, <<"00E9">>),
       Fix(<<"813F">>, <<"00E0">>),
       Fix(<<"732B">>, <<"00E8">>),
       Fix(<<"6F0F">>, <<"00F9">>),
       Fix(<<"9504">>, <<"00E7">>)
    >>

\* the table with the em dash entry in the place of the entry for the right
\* double quotation mark, and that one in its place
encodingFixesEmDashThird ==
    <<QuoteFixes[1], QuoteFixes[2], QuoteFixes[5], QuoteFixes[4], QuoteFixes[3]>>
        \o AccentFixes

\* const encodingFixes: [RegExp, string][], in source order
encodingFixes == QuoteFixes \o AccentFixes

\* the em dash, U+2014
EmDash == <<"2014">>

\* pattern occurs in text at position i
MatchesAt(text, pattern, i) ==
    /\ i + Len(pattern) - 1 <= Len(text)
    /\ \A k \in 1..Len(pattern) : text[i + k - 1] = pattern[k]

\* (fixedXmlContent.match(pattern) || []).length > 0
HasMatch(text, pattern) == \E i \in 1..Len(text) : MatchesAt(text, pattern, i)

RECURSIVE ReplaceFrom(_, _, _, _)
\* text.replace(pattern, replacement) with the g flag, from position i on:
\* the matches are taken left to right and do not overlap
ReplaceFrom(text, pattern, replacement, i) ==
    IF i > Len(text) THEN <<>>
    ELSE IF MatchesAt(text, pattern, i)
    THEN replacement \o ReplaceFrom(text, pattern, replacement, i + Len(pattern))
    ELSE <<text[i]>> \o ReplaceFrom(text, pattern, replacement, i + 1)

ReplaceAll(text, fix) == ReplaceFrom(text, fix.pattern, fix.replacement, 1)

RECURSIVE ApplyFixes(_, _, _)
\* encodingFixes.forEach over the entries i .. Len(table) of table
ApplyFixes(text, table, i) ==
    IF i > Len(table) THEN text
    ELSE ApplyFixes(ReplaceAll(text, table[i]), table, i + 1)

\* the characters of /[\x00-\x08\x0B\x0C\x0E-\x1F\x7F]/
ControlChars ==
    {"0000", "0001", "0002", "0003", "0004", "0005", "0006", "0007",
     "0008", "000B", "000C", "000E", "000F", "0010", "0011", "0012",
     "0013", "0014", "0015", "0016", "0017", "0018", "0019", "001A",
     "001B", "001C", "001D", "001E", "001F", "007F"}

RECURSIVE RemoveControls(_)
\* fixedXmlContent.replace(/[\x00-\x08\x0B\x0C\x0E-\x1F\x7F]/g, '')
RemoveControls(text) ==
    IF text = <<>> THEN <<>>
    ELSE (IF Head(text) \in ControlChars THEN <<>> ELSE <<Head(text)>>)
             \o RemoveControls(Tail(text))

\* the characters the texts are made of: those of the quotation mark and
\* dash patterns, of two accent patterns, an ideograph of the table, a
\* control character and a plain letter.  None is '<', '>' or '&', so the
\* tag and ampersand repairs of parseXMLData leave the texts as they are.
FixChars == {"00E2", "20AC", "0022", "2122", "00C3", "00A2", "00A9", "98E8", "0001", "0061"}

FixTexts == UNION {[1..n -> FixChars] : n \in 0..MaxTextLen}

RepairInit ==
    /\ mode = "primary"
    /\ doc = <<>>
    /\ usedIds = {}
    /\ pStations = <<>>
    /\ pSrc = <<>>
    /\ ppc = "returned"
    /\ feedPrice = <<>>
    /\ feedDoc = <<>>
    /\ stations = <<>>
    /\ isLoading = FALSE
    /\ error = <<>>
    /\ mounted = FALSE
    /\ calls = <<>>
    /\ scenario = "repair"
    /\ tableFilter = DefaultFilter
    /\ QueryIdle
    /\ scan = <<>>
    /\ \E text \in FixTexts :
           fixing = [input |-> text, text |-> text, repaired |-> <<>>, entry |-> 1,
                     pc |-> "parseXMLData"]

\* one call of the forEach callback: every match of the entry's pattern is
\* replaced
ApplyFix ==
    /\ scenario = "repair"
    /\ fixing.pc \in {"parseXMLData", "parseXMLWithFallback"}
    /\ fixing.entry <= Len(encodingFixes)
    /\ fixing' = [fixing EXCEPT !.text = ReplaceAll(@, encodingFixes[fixing.entry]),
                                !.entry = @ + 1]
    /\ UNCHANGED <<mode, doc, usedIds, pStations, pSrc, ppc, feedPrice, feedDoc, scan>>
    /\ UNCHANGED appVars
    /\ UNCHANGED queryVars

\* parseXMLData after its table: the control characters are removed, the
\* parser reports an error and parseXMLWithFallback(fixedXmlContent) is called
CallFallback ==
    /\ scenario = "repair"
    /\ fixing.pc = "parseXMLData"
    /\ fixing.entry > Len(encodingFixes)
    /\ \E cleaned \in {RemoveControls(fixing.text)} :
           fixing' = [fixing EXCEPT !.text = cleaned, !.repaired = <<cleaned>>,
                                    !.entry = 1, !.pc = "parseXMLWithFallback"]
    /\ UNCHANGED <<mode, doc, usedIds, pStations, pSrc, ppc, feedPrice, feedDoc, scan>>
    /\ UNCHANGED appVars
    /\ UNCHANGED queryVars

\* parseXMLWithFallback after its table: the scan of the text begins
EndFixes ==
    /\ scenario = "repair"
    /\ fixing.pc = "parseXMLWithFallback"
    /\ fixing.entry > Len(encodingFixes)
    /\ fixing' = [fixing EXCEPT !.pc = "done"]
    /\ UNCHANGED <<mode, doc, usedIds, pStations, pSrc, ppc, feedPrice, feedDoc, scan>>
    /\ UNCHANGED appVars
    /\ UNCHANGED queryVars

RepairNext ==
    \/ ApplyFix
    \/ CallFallback
    \/ EndFixes

RepairSpec == RepairInit /\ [][RepairNext]_vars

\* the table without its entries that map to the em dash
RECURSIVE WithoutEmDash(_)
WithoutEmDash(table) ==
    IF table = <<>> THEN <<>>
    ELSE (IF Head(table).replacement = EmDash THEN <<>> ELSE <<Head(table)>>)
             \o WithoutEmDash(Tail(table))

\* the text the table application under way started from
FixingStart ==
    IF fixing.pc = "parseXMLData" THEN fixing.input ELSE fixing.repaired[1]

\* C24: the entry of the table that maps to the em dash never fires: when
\* it is applied its pattern has no match in the text, and the text a table
\* application ends with is the one the table without that entry gives.
C24_EmDashEntryNeverFires ==
    fixing.pc \in {"parseXMLData", "parseXMLWithFallback"} =>
        /\ (/\ fixing.entry <= Len(encodingFixes)
            /\ encodingFixes[fixing.entry].replacement = EmDash)
               => ~HasMatch(fixing.text, encodingFixes[fixing.entry].pattern)
        /\ fixing.entry > Len(encodingFixes)
               => fixing.text = ApplyFixes(FixingStart, WithoutEmDash(encodingFixes), 1)

\* the text was the pattern of the dash entries; when the table has been
\* applied, it holds two quotation marks and no dash
C24_Witness ==
    /\ fixing.pc = "parseXMLData"
    /\ fixing.input = <<"00E2", "20AC", "0022">>
    /\ fixing.entry > Len(encodingFixes)
    /\ fixing.text = <<"0022", "0022">>

\* C27: the table is idempotent: applied to a text it has already
\* repaired it changes nothing, so the application made by
\* parseXMLWithFallback leaves the text parseXMLData handed to it unchanged.
C27_TableIdempotent ==
    /\ (fixing.pc = "parseXMLData" /\ fixing.entry > Len(encodingFixes))
           => ApplyFixes(fixing.text, encodingFixes, 1) = fixing.text
    /\ fixing.pc = "done" => fixing.text = fixing.repaired[1]


====
